---- MODULE Spec2Model ----
(***************************************************************************)
(* State-machine model of the event-planning backend: the Kanban board     *)
(* (task lists, tasks, ordering), the participant and invite services, the *)
(* poll service and the WebSocket gateway with its channel-layer groups.   *)
(* The database is PostgreSQL at READ COMMITTED: a statement outside       *)
(* transaction.atomic() commits at once, the writes of an atomic block     *)
(* become visible at its commit, SELECT ... FOR UPDATE waits for the rows  *)
(* another transaction holds.                                              *)
(***************************************************************************)
EXTENDS Integers, Sequences, FiniteSets, TLC

(***************************************************************************)
(* Bounds of the model.                                                    *)
(***************************************************************************)
NumUsers == 3
NumEvents == 2
MaxListId == 2
MaxTaskId == 3
NumProcs == 2
MaxInviteId == 2
MaxPollId == 1
NumOptions == 2
NumConns == 2
MaxTime == 1
MaxRuns == 2
NotifyTickHours == 6
MaxNotifyTime == 24
MaxFailAt == 2
MaxConcTaskId == 2
MaxConcListId == 2
MaxExpiresInHours == 1
MaxMaxUses == 1
MaxVersion == 3
NumTitles == 2
ProgressTickMs == 15000
MaxProgressClock == 30000
MaxProgressTaskId == 2
MaxMessageId == 2
MaxWsMessageId == 1
EnvelopeBytes == 4096
ChatTickMs == 400
MaxChatClock == 1600
MaxCacheClock == 45000
MaxInitOrder == 3
TypingTickMs == 500
MaxTypingClock == 2500

Users == 1..NumUsers
EventIds == 1..NumEvents
ListIds == 1..MaxListId
TaskIds == 1..MaxTaskId
Procs == 1..NumProcs
InviteIds == 1..MaxInviteId
PollIds == 1..MaxPollId
OptionIds == 1..NumOptions
Conns == 1..NumConns
MessageIds == 1..MaxMessageId

\* the handlers of the two requests of a race
Racers == {1, 2}

NoUser == 0
NoPart == 0

VARIABLES
    users,         \* User rows: id -> [is_active]
    events,        \* Event rows: event id -> owner_id (NoUser: no such row)
    participants,  \* Participant rows: pk -> [live, event, user, role]
    nextPartId,    \* AutoField sequence of Participant
    invites,       \* Invite rows: id -> [live, event, expires_at, max_uses, uses_count, is_revoked]
    nextInviteId,  \* BigAutoField sequence of Invite
    polls,         \* Poll rows: id -> [live, event, multiple, allow_change_vote, is_closed, version]
    nextPollId,    \* BigAutoField sequence of Poll
    votes,         \* Vote rows: the triples <<poll, user, option>>
    now,           \* timezone.now(), in hours
    clock,         \* the same clock in milliseconds (monotonic(), the cache's TTL)
    conns,         \* WebSocket connections: channel -> [state, token, user, event_id,
                   \* close_code, typing_last_sent]
    taskLists,     \* TaskList rows: id -> [live, event, title, order]
    tasks,         \* Task rows: id -> [live, list, order, assignee, status]
    dependsOn,     \* Task.depends_on: task id -> the ids it depends on
    progressCache, \* cache: event id -> [present, payload, expires_at]
    fallbackCache, \* _FALLBACK_CACHE: event id -> [present, payload, expires_at]
    messages,      \* chat Message rows: id -> [live, event, author, created_at]
    nextMessageId, \* BigAutoField sequence of Message
    nextListId,    \* BigAutoField sequence of TaskList
    nextTaskId,    \* BigAutoField sequence of Task
    groups,        \* channel layer: group name -> channels added by group_add
    broker,        \* the channel layer's backend: "up", or "down" (its calls raise)
    reminders,     \* Task rows, the reminder columns: id -> [due_at,
                   \* deadline_reminder_sent_at, deadline_reminder_for_due_at]
    closings,      \* Poll rows, the closing columns: id -> [end_at,
                   \* closing_notification_sent_at, closing_notification_for_end_at]
    mailPrefs,     \* User rows: id -> [email, email_notifications_enabled]
    outbox,        \* the emails handed to the mail backend, in order
    jobs,          \* the finished runs of the notification jobs, in order
    req,           \* request handlers in flight: process -> local variables
    sent           \* group_send calls made by the last step, in order

coreVars == <<users, events, participants, nextPartId>>
boardVars == <<taskLists, tasks, nextListId, nextTaskId, dependsOn>>
cacheVars == <<progressCache, clock>>
chatVars == <<messages, nextMessageId>>
inviteVars == <<invites, nextInviteId>>
pollVars == <<polls, nextPollId, votes>>
wsVars == <<conns, groups, broker>>
notifVars == <<reminders, closings, mailPrefs, outbox, jobs>>
vars ==
    <<coreVars, boardVars, cacheVars, fallbackCache, chatVars, inviteVars, pollVars, wsVars, now,
      notifVars, req, sent>>

(***************************************************************************)
(* Rows and queries.                                                       *)
(***************************************************************************)
NoParticipantRow == [live |-> FALSE, event |-> 0, user |-> 0, role |-> "member"]
NoListRow == [live |-> FALSE, event |-> 0, title |-> 0, order |-> 0]
NoTaskRow == [live |-> FALSE, list |-> 0, order |-> 0, assignee |-> 0, status |-> "todo"]

NoInviteRow == [live |-> FALSE, event |-> 0, expires_at |-> 0, max_uses |-> 0,
                uses_count |-> 0, is_revoked |-> FALSE]
NoPollRow == [live |-> FALSE, event |-> 0, multiple |-> FALSE, allow_change_vote |-> FALSE,
              is_closed |-> FALSE, version |-> 0]
NoMessageRow == [live |-> FALSE, event |-> 0, author |-> 0, created_at |-> 0]
NoToken == [valid |-> FALSE, user_id |-> 0]
NewConn == [state |-> "new", token |-> NoToken, user |-> NoUser, event_id |-> 0,
            close_code |-> 0, typing_last_sent |-> 0]

Idle == [op |-> "idle", pc |-> "idle"]

PartIds == 1..(NumUsers * NumEvents)

\* Participant.objects.filter(event_id=e, user_id=u)
ParticipantOf(e, u) ==
    {k \in PartIds : participants[k].live /\ participants[k].event = e
                     /\ participants[k].user = u}

IsParticipantRow(e, u) == ParticipantOf(e, u) # {}

\* Event.objects.filter(id=e, owner=u).exists()
IsEventOwnerWrite(e, u) == e \in EventIds /\ events[e] # NoUser /\ events[e] = u

\* TaskList.objects.filter(event=e)
EventLists(e) == {l \in ListIds : taskLists[l].live /\ taskLists[l].event = e}

\* Task.objects.filter(list=l)
ListTasks(l) == {t \in TaskIds : tasks[t].live /\ tasks[t].list = l}

\* Task.objects.filter(list__event__participants__user=u)
VisibleTask(t, u) ==
    /\ tasks[t].live
    /\ taskLists[tasks[t].list].live
    /\ IsParticipantRow(taskLists[tasks[t].list].event, u)

VisibleList(l, u) == taskLists[l].live /\ IsParticipantRow(taskLists[l].event, u)

SetMax(S) == CHOOSE x \in S : \A y \in S : y <= x

\* aggregate(max_value=Max("order")); None becomes -1
MaxOrder(S, row) == IF S = {} THEN -1 ELSE SetMax({row[x].order : x \in S})

\* serializer.save(order=max_order + 1)
NextOrder_NoIncrement(max_order) == max_order
NextOrder(max_order) == max_order + 1

\* position of x in order_by("order") alone
OrderIndex_NoTieBreak(S, ord, x) == Cardinality({y \in S : ord[y] < ord[x]})

\* position of x in order_by("order", "id") over the rows S
OrderIndex(S, ord, x) ==
    Cardinality({y \in S : ord[y] < ord[x] \/ (ord[y] = ord[x] /\ y < x)})

\* normalize_*_orders: rows whose order differs from their position get it
NormalizedOrders(S, ord) == [x \in S |-> OrderIndex(S, ord, x)]

\* _validate_ordered_ids: a list of unique integers
ValidateOrderedIds(ids) ==
    \A i, j \in 1..Len(ids) : i # j => ids[i] # ids[j]

SeqRange(s) == {s[i] : i \in 1..Len(s)}

\* set(existing_ids) != set(ordered_ids) or len(existing_ids) != len(ordered_ids)
IdsMatch_NoMissing(existing, ids) == existing \subseteq SeqRange(ids)
IdsMatch(existing, ids) == existing = SeqRange(ids) /\ Cardinality(existing) = Len(ids)

\* for index, id in enumerate(ordered_ids): row.order = index
ReorderedOrders_FromOne(ids) == [x \in SeqRange(ids) |-> CHOOSE i \in 1..Len(ids) : ids[i] = x]
ReorderedOrders(ids) == [x \in SeqRange(ids) |-> (CHOOSE i \in 1..Len(ids) : ids[i] = x) - 1]

\* group names
ConsumerGroup_Shared(e) == <<"event:", 1>>
ConsumerGroup(e) == <<"event:", e>>
TaskNotifyGroup(e) == <<"event_", e>>

GroupNames == {ConsumerGroup(e) : e \in EventIds} \cup {TaskNotifyGroup(e) : e \in EventIds}

\* settings.py
CHANNELS_WS_MAX_MESSAGE_SIZE == 65536

\* EventConsumer._payload_exceeds_limit, on the size of the encoded message
PayloadExceedsLimit(bytes) == bytes > CHANNELS_WS_MAX_MESSAGE_SIZE

\* EventConsumer.broadcast on channel c: TRUE when the message goes to the
\* socket; sender_id is NoUser for a message that carries none
BroadcastForwards_NoEchoTest(c, message_type, sender_id, bytes) == ~PayloadExceedsLimit(bytes)
BroadcastForwards(c, message_type, sender_id, bytes) ==
    /\ ~(message_type = "chat.typing" /\ sender_id # NoUser /\ sender_id = conns[c].user)
    /\ ~PayloadExceedsLimit(bytes)

\* the sockets a message of the group reaches through the consumers' broadcast
Delivered(group, message_type, sender_id, bytes) ==
    {c \in groups[group] : BroadcastForwards(c, message_type, sender_id, bytes)}

\* channel_layer.group_send(group, {"type": "broadcast", ...}): the message is
\* put on the channel of every member of the group; committed tells whether
\* the transaction of the producing operation had committed at the call
Msg(group, type, e, committed) ==
    [group |-> group, message_type |-> type, event_id |-> e,
     committed |-> committed, receivers |-> groups[group],
     delivered |-> Delivered(group, type, NoUser, EnvelopeBytes)]

\* notify_event_group_sync(e, type, ...); notify_progress_invalidation(e)
TaskNotify(e, types, committed) ==
    [i \in 1..Len(types) |-> Msg(TaskNotifyGroup(e), types[i], e, committed)]

\* the request whose group_send raised: nothing catches the exception, the
\* response is a 500; committed tells whether its writes are in the database
PublishFailed(op, e, committed) ==
    [op |-> op, pc |-> "done", event |-> e, status |-> 500, code |-> "publish_failed",
     committed |-> committed]

\* rows another transaction holds FOR UPDATE (or has written) until it commits
LockedTasks(p) == IF req[p].pc = "commit" THEN req[p].lockedTasks ELSE {}
LockedLists(p) == IF req[p].pc = "commit" THEN req[p].lockedLists ELSE {}
TasksFree(p, S) == \A q \in Procs \ {p} : LockedTasks(q) \cap S = {}
ListsFree(p, S) == \A q \in Procs \ {p} : LockedLists(q) \cap S = {}

(***************************************************************************)
(* Board: TaskListViewSet, TaskViewSet, the reorder views.                 *)
(***************************************************************************)
\* Task.Status
Statuses == {"todo", "doing", "done"}

\* TaskList.title, as far as two titles differ
Titles == 1..NumTitles

\* services/progress.py
CACHE_TTL_SECONDS == 30

NoPayload ==
    [event_id |-> 0, total_tasks |-> 0, counts |-> [todo |-> 0, doing |-> 0, done |-> 0],
     by_list |-> <<>>, generated_at |-> 0]
NoCacheEntry == [present |-> FALSE, payload |-> NoPayload, expires_at |-> 0]

\* Count("tasks", filter=Q(tasks__status=st)) of one list
StatusCount(l, st) == Cardinality({t \in ListTasks(l) : tasks[t].status = st})

\* one row of _annotated_lists
AnnotatedList(l) ==
    [list_id |-> l, title |-> taskLists[l].title, total |-> Cardinality(ListTasks(l)),
     todo |-> StatusCount(l, "todo"), doing |-> StatusCount(l, "doing"),
     done |-> StatusCount(l, "done")]

\* _annotated_lists(e): the lists of the event in order_by("order", "id")
AnnotatedLists(e) ==
    LET S == EventLists(e)
        ord == [l \in S |-> taskLists[l].order]
    IN  [i \in 1..Cardinality(S) |->
            AnnotatedList(CHOOSE l \in S : OrderIndex(S, ord, l) = i - 1)]

RECURSIVE SumField(_, _, _)
SumField(by_list, field, n) ==
    IF n = 0 THEN 0 ELSE by_list[n][field] + SumField(by_list, field, n - 1)

\* compute_event_progress(e), without percent_done and ttl_seconds
ComputeEventProgress(e) ==
    LET by_list == AnnotatedLists(e)
        n == Len(by_list)
    IN  [event_id |-> e, total_tasks |-> SumField(by_list, "total", n),
         counts |-> [todo |-> SumField(by_list, "todo", n),
                     doing |-> SumField(by_list, "doing", n),
                     done |-> SumField(by_list, "done", n)],
         by_list |-> by_list, generated_at |-> clock]

\* get_cached_progress(e) finds an entry that has not expired
CacheHit(e) == progressCache[e].present /\ clock < progressCache[e].expires_at

\* set_cached_progress(e, payload)
SetCachedProgress(e, payload) ==
    [progressCache EXCEPT ![e] = [present |-> TRUE, payload |-> payload,
                                  expires_at |-> clock + CACHE_TTL_SECONDS * 1000]]

\* signals.py: _invalidate_progress_cache, run by post_save and post_delete
\* of Task and TaskList
InvalidateProgressCache(e) == [progressCache EXCEPT ![e] = NoCacheEntry]

\* invalidate_cached_progress(e), called by the views after the notifications
InvalidateCachedProgress(e) == [progressCache EXCEPT ![e] = NoCacheEntry]

\* requests of one kind in flight (the id sequences stay within the bounds)
InFlight(op) == Cardinality({q \in Procs : req[q].op = op})

OrderedIdsInputs(D) == UNION {[1..n -> D] : n \in 0..Cardinality(D)}

\* TaskListViewSet.perform_create, the aggregate
TaskListCreateRead(p, u, e, bound) ==
    /\ req[p] = Idle
    /\ IsEventOwnerWrite(e, u)
    /\ nextListId + InFlight("tasklist.create") <= bound
    /\ req' = [req EXCEPT ![p] = [op |-> "tasklist.create", pc |-> "save", event |-> e,
                                  max_order |-> MaxOrder(EventLists(e), taskLists)]]
    /\ sent' = <<>>
    /\ UNCHANGED <<coreVars, boardVars, inviteVars, pollVars, wsVars, now, cacheVars,
                   chatVars, fallbackCache, notifVars>>

\* TaskListViewSet.perform_create, serializer.save and the notifications
TaskListCreateSave(p) ==
    /\ req[p].op = "tasklist.create" /\ req[p].pc = "save"
    /\ taskLists' = [taskLists EXCEPT ![nextListId] =
                        [live |-> TRUE, event |-> req[p].event, title |-> 1,
                         order |-> NextOrder(req[p].max_order)]]
    /\ nextListId' = nextListId + 1
    /\ IF broker = "up"
       THEN /\ sent' = TaskNotify(req[p].event,
                                  <<"tasklist.created", "progress.invalidate">>, TRUE)
            /\ req' = [req EXCEPT ![p] = Idle]
       ELSE /\ sent' = <<>>
            /\ req' = [req EXCEPT ![p] = PublishFailed(req[p].op, req[p].event, TRUE)]
    /\ progressCache' = InvalidateProgressCache(req[p].event)
    /\ UNCHANGED <<coreVars, tasks, nextTaskId, dependsOn, inviteVars, pollVars, wsVars,
                   now, clock, chatVars, fallbackCache, notifVars>>

\* TaskViewSet.perform_create, the aggregate
TaskCreateRead(p, u, l, bound) ==
    /\ req[p] = Idle
    /\ taskLists[l].live
    /\ IsEventOwnerWrite(taskLists[l].event, u)
    /\ nextTaskId + InFlight("task.create") <= bound
    /\ req' = [req EXCEPT ![p] = [op |-> "task.create", pc |-> "save", list |-> l,
                                  event |-> taskLists[l].event,
                                  max_order |-> MaxOrder(ListTasks(l), tasks)]]
    /\ sent' = <<>>
    /\ UNCHANGED <<coreVars, boardVars, inviteVars, pollVars, wsVars, now, cacheVars,
                   chatVars, fallbackCache, notifVars>>

\* TaskViewSet.perform_create, serializer.save and the notifications; the
\* INSERT waits for a transaction that holds the list row and fails on the
\* foreign key when the list is gone
TaskCreateSave(p) ==
    /\ req[p].op = "task.create" /\ req[p].pc = "save"
    /\ ListsFree(p, {req[p].list})
    /\ IF taskLists[req[p].list].live
       THEN /\ tasks' = [tasks EXCEPT ![nextTaskId] =
                            [live |-> TRUE, list |-> req[p].list,
                             order |-> NextOrder(req[p].max_order), assignee |-> NoPart,
                             status |-> "todo"]]
            /\ nextTaskId' = nextTaskId + 1
            /\ progressCache' = InvalidateProgressCache(req[p].event)
            /\ IF broker = "up"
               THEN /\ sent' = TaskNotify(req[p].event,
                                          <<"task.created", "progress.invalidate">>, TRUE)
                    /\ req' = [req EXCEPT ![p] = Idle]
               ELSE /\ sent' = <<>>
                    /\ req' = [req EXCEPT ![p] =
                                  PublishFailed(req[p].op, req[p].event, TRUE)]
       ELSE /\ sent' = <<>>
            /\ req' = [req EXCEPT ![p] = Idle]
            /\ UNCHANGED <<tasks, nextTaskId, progressCache>>
    /\ UNCHANGED <<coreVars, taskLists, nextListId, dependsOn, inviteVars, pollVars, wsVars,
                   now, clock, chatVars, fallbackCache, notifVars>>

\* the writes of an atomic block, held until its commit
Pending(op, e, delLists, delTasks, listOrders, taskOrders, lockedLists, lockedTasks) ==
    [op |-> op, pc |-> "commit", event |-> e,
     delLists |-> delLists, delTasks |-> delTasks,
     listOrders |-> listOrders, taskOrders |-> taskOrders,
     lockedLists |-> lockedLists, lockedTasks |-> lockedTasks]

\* the rows normalize_*_orders puts into needs_update
NeedsUpdate(S, row) ==
    LET norm == NormalizedOrders(S, [x \in S |-> row[x].order])
    IN  [x \in {y \in S : row[y].order # norm[y]} |-> norm[x]]

\* the body of a view under @transaction.atomic: its writes wait for the
\* commit and its notifications are sent inside the block; an exception of
\* group_send leaves the block and rolls the writes back; the cache entry
\* is deleted by the signals of the rows saved or deleted (signalled) and by
\* invalidate_cached_progress after the notifications, neither being undone
AtomicBlock(p, pending, notifications, signalled) ==
    IF broker = "up"
    THEN /\ req' = [req EXCEPT ![p] = pending]
         /\ sent' = notifications
         /\ progressCache' = InvalidateCachedProgress(pending.event)
    ELSE /\ req' = [req EXCEPT ![p] = PublishFailed(pending.op, pending.event, FALSE)]
         /\ sent' = <<>>
         /\ progressCache' = IF signalled THEN InvalidateProgressCache(pending.event)
                                          ELSE progressCache

\* TaskViewSet.destroy up to the end of the atomic block
TaskDestroyBegin(p, u, t) ==
    /\ req[p] = Idle
    /\ VisibleTask(t, u)
    /\ events[taskLists[tasks[t].list].event] = u
    /\ LET l == tasks[t].list
           e == taskLists[l].event
       IN  /\ TasksFree(p, ListTasks(l))
           /\ AtomicBlock(p,
                 Pending("task.destroy", e, {}, {t}, <<>>,
                         NeedsUpdate(ListTasks(l) \ {t}, tasks), {}, ListTasks(l))
                 @@ [user |-> u],
                 TaskNotify(e, <<"task.deleted", "progress.invalidate">>, FALSE),
                 TRUE)
    /\ UNCHANGED <<coreVars, boardVars, inviteVars, pollVars, wsVars, now, clock,
                   chatVars, fallbackCache, notifVars>>

\* TaskListViewSet.destroy up to the end of the atomic block
TaskListDestroyBegin(p, u, l) ==
    /\ req[p] = Idle
    /\ VisibleList(l, u)
    /\ events[taskLists[l].event] = u
    /\ LET e == taskLists[l].event
       IN  /\ ListsFree(p, EventLists(e))
           /\ TasksFree(p, ListTasks(l))
           /\ AtomicBlock(p,
                 Pending("tasklist.destroy", e, {l}, ListTasks(l),
                         NeedsUpdate(EventLists(e) \ {l}, taskLists), <<>>,
                         EventLists(e), ListTasks(l)),
                 TaskNotify(e, <<"tasklist.deleted", "tasklist.reordered",
                                 "progress.invalidate">>, FALSE),
                 TRUE)
    /\ UNCHANGED <<coreVars, boardVars, inviteVars, pollVars, wsVars, now, clock,
                   chatVars, fallbackCache, notifVars>>

\* ReorderTasksInListView.post up to the end of the atomic block
ReorderTasksBegin(p, u, l, ids) ==
    /\ req[p] = Idle
    /\ taskLists[l].live
    /\ IsEventOwnerWrite(taskLists[l].event, u)
    /\ ValidateOrderedIds(ids)
    /\ TasksFree(p, ListTasks(l))
    /\ IdsMatch(ListTasks(l), ids)
    /\ AtomicBlock(p,
          Pending("task.reorder", taskLists[l].event, {}, {}, <<>>, ReorderedOrders(ids),
                  {}, ListTasks(l)) @@ [user |-> u, ids |-> ids, target |-> l],
          TaskNotify(taskLists[l].event, <<"task.reordered", "progress.invalidate">>, FALSE),
          ids # <<>>)
    /\ UNCHANGED <<coreVars, boardVars, inviteVars, pollVars, wsVars, now, clock,
                   chatVars, fallbackCache, notifVars>>

\* ReorderTaskListsView.post up to the end of the atomic block
ReorderTaskListsBegin(p, u, e, ids) ==
    /\ req[p] = Idle
    /\ IsEventOwnerWrite(e, u)
    /\ ValidateOrderedIds(ids)
    /\ ListsFree(p, EventLists(e))
    /\ IdsMatch(EventLists(e), ids)
    /\ AtomicBlock(p,
          Pending("tasklist.reorder", e, {}, {}, ReorderedOrders(ids), <<>>, EventLists(e), {})
             @@ [user |-> u, ids |-> ids, target |-> e],
          TaskNotify(e, <<"tasklist.reordered", "progress.invalidate">>, FALSE),
          ids # <<>>)
    /\ UNCHANGED <<coreVars, boardVars, inviteVars, pollVars, wsVars, now, clock,
                   chatVars, fallbackCache, notifVars>>

\* the exit of @transaction.atomic: the writes of the block become visible
BoardCommit(p) ==
    /\ req[p].pc = "commit"
    /\ taskLists' = [l \in ListIds |->
          IF l \in req[p].delLists THEN NoListRow
          ELSE IF l \in DOMAIN req[p].listOrders
               THEN [taskLists[l] EXCEPT !.order = req[p].listOrders[l]]
               ELSE taskLists[l]]
    /\ tasks' = [t \in TaskIds |->
          IF t \in req[p].delTasks THEN NoTaskRow
          ELSE IF t \in DOMAIN req[p].taskOrders
               THEN [tasks[t] EXCEPT !.order = req[p].taskOrders[t]]
               ELSE tasks[t]]
    /\ dependsOn' = [t \in TaskIds |->
          IF t \in req[p].delTasks THEN {} ELSE dependsOn[t] \ req[p].delTasks]
    /\ req' = [req EXCEPT ![p] = Idle]
    /\ sent' = <<>>
    /\ UNCHANGED <<coreVars, nextListId, nextTaskId, inviteVars, pollVars, wsVars, now,
                   cacheVars, chatVars, fallbackCache, notifVars>>

\* UPDATE ... WHERE id = t AND assignee IS NULL matches the row
TakeFilter_AnyAssignee(t) == tasks[t].live
TakeFilter(t) == tasks[t].live /\ tasks[t].assignee = NoPart

\* TaskViewSet.take: get_object and _get_participant
TakeRead(p, u, t) ==
    /\ req[p] = Idle
    /\ VisibleTask(t, u)
    /\ req' = [req EXCEPT ![p] =
                 [op |-> "take", pc |-> "update", task |-> t, user |-> u,
                  event |-> taskLists[tasks[t].list].event,
                  seen_assignee |-> tasks[t].assignee, status |-> 0, code |-> "",
                  participant |-> CHOOSE k \in ParticipantOf(taskLists[tasks[t].list].event, u) : TRUE]]
    /\ sent' = <<>>
    /\ UNCHANGED <<coreVars, boardVars, inviteVars, pollVars, wsVars, now, cacheVars,
                   chatVars, fallbackCache, notifVars>>

\* TaskViewSet.take: the conditional UPDATE and the response
TakeUpdate(p) ==
    /\ req[p].op = "take" /\ req[p].pc = "update"
    /\ TasksFree(p, {req[p].task})
    /\ IF TakeFilter(req[p].task)
       THEN /\ tasks' = [tasks EXCEPT ![req[p].task].assignee = req[p].participant]
            /\ IF broker = "up"
               THEN /\ sent' = TaskNotify(req[p].event,
                                          <<"task.updated", "progress.invalidate">>, TRUE)
                    /\ progressCache' = InvalidateCachedProgress(req[p].event)
                    /\ req' = [req EXCEPT ![p].pc = "done", ![p].status = 200,
                                          ![p].code = "taken"]
               ELSE /\ sent' = <<>>
                    /\ UNCHANGED progressCache
                    /\ req' = [req EXCEPT ![p].pc = "done", ![p].status = 500,
                                          ![p].code = "publish_failed"]
       ELSE /\ UNCHANGED <<tasks, progressCache>>
            /\ sent' = <<>>
            /\ req' = [req EXCEPT ![p].pc = "done", ![p].status = 409,
                                  ![p].code = "already_assigned"]
    /\ UNCHANGED <<coreVars, taskLists, nextListId, nextTaskId, dependsOn, inviteVars,
                   pollVars, wsVars, now, clock, chatVars, fallbackCache, notifVars>>

\* the response has been returned
Finish(p) ==
    /\ req[p].pc = "done"
    /\ req' = [req EXCEPT ![p] = Idle]
    /\ sent' = <<>>
    /\ UNCHANGED <<coreVars, boardVars, inviteVars, pollVars, wsVars, now, cacheVars,
                   chatVars, fallbackCache, notifVars>>

(***************************************************************************)
(* Initial states.                                                         *)
(***************************************************************************)
\* two events created by users 1 and 2 (EventViewSet.perform_create makes
\* the owner an organizer); users 2 and 3 have joined event 1 as members
SeededParticipants ==
    [k \in PartIds |->
        CASE k = 1 -> [live |-> TRUE, event |-> 1, user |-> 1, role |-> "organizer"]
          [] k = 2 -> [live |-> TRUE, event |-> 2, user |-> 2, role |-> "organizer"]
          [] k = 3 -> [live |-> TRUE, event |-> 1, user |-> 2, role |-> "member"]
          [] k = 4 -> [live |-> TRUE, event |-> 1, user |-> 3, role |-> "member"]
          [] OTHER -> NoParticipantRow]

\* a DateTimeField that is NULL
NoTime == -1

NoReminder ==
    [due_at |-> NoTime, deadline_reminder_sent_at |-> NoTime,
     deadline_reminder_for_due_at |-> NoTime]
NoClosing ==
    [end_at |-> NoTime, closing_notification_sent_at |-> NoTime,
     closing_notification_for_end_at |-> NoTime]

\* no deadlines, no end dates, nothing sent and no job run yet
NoNotifications ==
    /\ reminders = [t \in TaskIds |-> NoReminder]
    /\ closings = [q \in PollIds |-> NoClosing]
    /\ mailPrefs = [u \in Users |-> [email |-> TRUE, email_notifications_enabled |-> TRUE]]
    /\ outbox = <<>>
    /\ jobs = <<>>

InitRest ==
    /\ taskLists = [l \in ListIds |-> NoListRow]
    /\ tasks = [t \in TaskIds |-> NoTaskRow]
    /\ nextListId = 1
    /\ nextTaskId = 1
    /\ dependsOn = [t \in TaskIds |-> {}]
    /\ progressCache = [e \in EventIds |-> NoCacheEntry]
    /\ fallbackCache = [e \in EventIds |-> NoCacheEntry]
    /\ clock = 0
    /\ messages = [m \in MessageIds |-> NoMessageRow]
    /\ nextMessageId = 1
    /\ invites = [i \in InviteIds |-> NoInviteRow]
    /\ nextInviteId = 1
    /\ polls = [q \in PollIds |-> NoPollRow]
    /\ nextPollId = 1
    /\ votes = {}
    /\ now = 0
    /\ NoNotifications
    /\ conns = [c \in Conns |-> NewConn]
    /\ groups = [g \in GroupNames |-> {}]
    /\ broker = "up"
    /\ req = [p \in Procs |-> Idle]
    /\ sent = <<>>

InitSeeded ==
    /\ users = [u \in Users |-> [is_active |-> TRUE]]
    /\ events = [e \in EventIds |-> IF e \in {1, 2} THEN e ELSE NoUser]
    /\ participants = SeededParticipants
    /\ nextPartId = 5
    /\ InitRest

(***************************************************************************)
(* The board, one request at a time.                                       *)
(***************************************************************************)
CreateSteps(p, maxList, maxTask) ==
    \/ \E u \in Users, e \in EventIds : TaskListCreateRead(p, u, e, maxList)
    \/ TaskListCreateSave(p)
    \/ \E u \in Users, l \in ListIds : TaskCreateRead(p, u, l, maxTask)
    \/ TaskCreateSave(p)

AtomicSteps(p) ==
    \/ \E u \in Users, t \in TaskIds : TaskDestroyBegin(p, u, t)
    \/ \E u \in Users, l \in ListIds : TaskListDestroyBegin(p, u, l)
    \/ \E u \in Users, l \in ListIds, ids \in OrderedIdsInputs(TaskIds) :
          ReorderTasksBegin(p, u, l, ids)
    \/ \E u \in Users, e \in EventIds, ids \in OrderedIdsInputs(ListIds) :
          ReorderTaskListsBegin(p, u, e, ids)
    \/ BoardCommit(p)

TakeSteps(p) ==
    \/ \E u \in Users, t \in TaskIds : TakeRead(p, u, t)
    \/ TakeUpdate(p)
    \/ Finish(p)

NextBoardSeq == CreateSteps(1, MaxListId, MaxTaskId) \/ AtomicSteps(1) \/ TakeSteps(1)

SpecBoardSeq == InitSeeded /\ [][NextBoardSeq]_vars

\* the board with concurrent request handlers
NextBoard ==
    \E p \in Procs : CreateSteps(p, MaxConcListId, MaxConcTaskId) \/ AtomicSteps(p)

SpecBoard == InitSeeded /\ [][NextBoard]_vars

\* concurrent take requests on the tasks of a board
NextTake ==
    \/ CreateSteps(1, MaxConcListId, MaxConcTaskId)
    \/ \E p \in Racers : TakeSteps(p)

SpecTake == InitSeeded /\ [][NextTake]_vars

(***************************************************************************)
(* WebSocket gateway: JWTAuthMiddleware and EventConsumer.                 *)
(***************************************************************************)
\* what a client can send as a token: nothing or a string that is not a
\* signed token (valid = FALSE), or a signed token with its user_id claim
\* (0: no claim, NumUsers + 1: the id of no User row)
Tokens == {NoToken} \cup {[valid |-> TRUE, user_id |-> u] : u \in 0..(NumUsers + 1)}

\* the event_id of the route, any string of digits
RouteEventIds == 1..(NumEvents + 1)

\* get_user_from_token: None unless the token is signed, has a user_id and
\* User.objects.get(pk=user_id) finds the row
GetUserFromToken(token) ==
    IF token.valid /\ token.user_id \in Users THEN token.user_id ELSE NoUser

\* EventConsumer._is_participant
IsParticipant_Everyone(event_id, user_id) == TRUE
IsParticipant(event_id, user_id) == ParticipantOf(event_id, user_id) # {}

\* JWTAuthMiddleware.__call__ and EventConsumer.connect
Connect(c, token, event_id) ==
    /\ conns[c].state = "new"
    /\ LET user == GetUserFromToken(token)
       IN  IF user = NoUser
           THEN /\ conns' = [conns EXCEPT ![c] =
                               [state |-> "closed", token |-> token, user |-> NoUser,
                                event_id |-> event_id, close_code |-> 4401,
                                typing_last_sent |-> 0]]
                /\ UNCHANGED groups
           ELSE IF ~IsParticipant(event_id, user)
           THEN /\ conns' = [conns EXCEPT ![c] =
                               [state |-> "closed", token |-> token, user |-> user,
                                event_id |-> event_id, close_code |-> 4403,
                                typing_last_sent |-> 0]]
                /\ UNCHANGED groups
           ELSE IF broker # "up"
           THEN \* group_add raises: the handshake is denied, no close code is sent
                /\ conns' = [conns EXCEPT ![c] =
                               [state |-> "closed", token |-> token, user |-> user,
                                event_id |-> event_id, close_code |-> 0,
                                typing_last_sent |-> 0]]
                /\ UNCHANGED groups
           ELSE /\ groups' = [groups EXCEPT ![ConsumerGroup(event_id)] = @ \cup {c}]
                /\ conns' = [conns EXCEPT ![c] =
                               [state |-> "open", token |-> token, user |-> user,
                                event_id |-> event_id, close_code |-> 0,
                                typing_last_sent |-> 0]]
    /\ sent' = <<>>
    /\ UNCHANGED <<coreVars, boardVars, inviteVars, pollVars, now, req, broker, cacheVars,
                   chatVars, fallbackCache, notifVars>>

\* EventConsumer.disconnect: group_discard when group_name was set; the
\* channel is then free for a new connection
Disconnect(c) ==
    /\ conns[c].state \in {"open", "closed"}
    /\ groups' = IF conns[c].state = "open" /\ broker = "up"
                 THEN [groups EXCEPT ![ConsumerGroup(conns[c].event_id)] = @ \ {c}]
                 ELSE groups
    /\ conns' = [conns EXCEPT ![c] = NewConn]
    /\ sent' = <<>>
    /\ UNCHANGED <<coreVars, boardVars, inviteVars, pollVars, now, req, broker, cacheVars,
                   chatVars, fallbackCache, notifVars>>

\* connections come and go while one client edits the board
NextWs ==
    \/ \E c \in Conns, token \in Tokens, e \in RouteEventIds : Connect(c, token, e)
    \/ \E c \in Conns : Disconnect(c)
    \/ CreateSteps(1, MaxConcListId, MaxConcTaskId)

SpecWs == InitSeeded /\ [][NextWs]_vars

(***************************************************************************)
(* Invites: EventInviteCreateView, AcceptInviteView, RevokeInviteView.     *)
(***************************************************************************)
\* _determine_status(invite, now)
DetermineStatus_CountAfter(invite, t) ==
    IF invite.is_revoked THEN "revoked"
    ELSE IF invite.expires_at <= t THEN "expired"
    ELSE IF invite.max_uses # 0 /\ invite.uses_count > invite.max_uses THEN "exhausted"
    ELSE "ok"
DetermineStatus(invite, t) ==
    IF invite.is_revoked THEN "revoked"
    ELSE IF invite.expires_at <= t THEN "expired"
    ELSE IF invite.max_uses # 0 /\ invite.uses_count >= invite.max_uses THEN "exhausted"
    ELSE "ok"

\* Invite.objects.filter(pk=invite.pk).update(uses_count=F("uses_count") + 1)
UpdateUsesCount_Unchanged(rows, i) == rows
UpdateUsesCount(rows, i) == [rows EXCEPT ![i].uses_count = @ + 1]

\* the invite rows a transaction holds FOR UPDATE
LockedInvites(p) ==
    IF req[p].op = "invite.accept" /\ req[p].pc = "write" THEN {req[p].invite} ELSE {}
InviteFree(p, i) == \A q \in Procs \ {p} : i \notin LockedInvites(q)

\* EventInviteCreateView.post with InviteCreateSerializer.create
InviteCreate(u, e, expires_in_hours, max_uses) ==
    /\ events[e] # NoUser /\ events[e] = u
    /\ nextInviteId <= MaxInviteId
    /\ invites' = [invites EXCEPT ![nextInviteId] =
                      [live |-> TRUE, event |-> e, expires_at |-> now + expires_in_hours,
                       max_uses |-> max_uses, uses_count |-> 0, is_revoked |-> FALSE]]
    /\ nextInviteId' = nextInviteId + 1
    /\ sent' = <<>>
    /\ UNCHANGED <<coreVars, boardVars, pollVars, wsVars, now, req, cacheVars,
                   chatVars, fallbackCache, notifVars>>

\* AcceptInviteView.post: Invite.objects.get(token=token)
AcceptLookup(p, u, i) ==
    /\ req[p] = Idle
    /\ req' = [req EXCEPT ![p] =
                 IF invites[i].live
                 THEN [op |-> "invite.accept", pc |-> "lock", user |-> u, invite |-> i,
                       initial_invite |-> invites[i],
                       member_before |-> IsParticipantRow(invites[i].event, u),
                       status |-> 0, code |-> ""]
                 ELSE [op |-> "invite.accept", pc |-> "done", user |-> u, invite |-> i,
                       initial_invite |-> invites[i], member_before |-> FALSE,
                       status |-> 404, code |-> "not_found"]]
    /\ sent' = <<>>
    /\ UNCHANGED <<coreVars, boardVars, inviteVars, pollVars, wsVars, now, cacheVars,
                   chatVars, fallbackCache, notifVars>>

\* AcceptInviteView.post: select_for_update().get(pk), the membership check
\* and _determine_status on the locked row
AcceptLock(p) ==
    /\ req[p].op = "invite.accept" /\ req[p].pc = "lock"
    /\ InviteFree(p, req[p].invite)
    /\ LET invite == invites[req[p].invite]
           status_code == DetermineStatus(invite, now)
       IN  req' = [req EXCEPT ![p] =
                     IF IsParticipantRow(invite.event, req[p].user)
                     THEN [@ EXCEPT !.pc = "done", !.status = 200, !.code = "already_member"]
                     ELSE IF status_code # "ok"
                     THEN [@ EXCEPT !.pc = "done", !.status = 400, !.code = status_code]
                     ELSE [@ EXCEPT !.pc = "write"]]
    /\ sent' = <<>>
    /\ UNCHANGED <<coreVars, boardVars, inviteVars, pollVars, wsVars, now, cacheVars,
                   chatVars, fallbackCache, notifVars>>

\* AcceptInviteView.post: Participant.objects.create, the F("uses_count") + 1
\* update and the commit; the unique (user, event) constraint fails the
\* insert, and with it the transaction, when the row has appeared meanwhile
AcceptWrite(p) ==
    /\ req[p].op = "invite.accept" /\ req[p].pc = "write"
    /\ LET i == req[p].invite
           e == invites[i].event
       IN  IF IsParticipantRow(e, req[p].user)
           THEN /\ req' = [req EXCEPT ![p].pc = "done", ![p].status = 500,
                                      ![p].code = "integrity_error"]
                /\ UNCHANGED <<participants, nextPartId, invites>>
           ELSE /\ participants' = [participants EXCEPT ![nextPartId] =
                                       [live |-> TRUE, event |-> e, user |-> req[p].user,
                                        role |-> "member"]]
                /\ nextPartId' = nextPartId + 1
                /\ invites' = UpdateUsesCount(invites, i)
                /\ req' = [req EXCEPT ![p].pc = "done", ![p].status = 201,
                                      ![p].code = "joined"]
    /\ sent' = <<>>
    /\ UNCHANGED <<users, events, nextInviteId, boardVars, pollVars, wsVars, now, cacheVars,
                   chatVars, fallbackCache, notifVars>>

\* RevokeInviteView.post: the lookup, the owner check and the is_revoked test
RevokeRead(p, u, i) ==
    /\ req[p] = Idle
    /\ invites[i].live
    /\ events[invites[i].event] = u
    /\ req' = [req EXCEPT ![p] =
                 [op |-> "invite.revoke", pc |-> IF invites[i].is_revoked THEN "done" ELSE "save",
                  user |-> u, invite |-> i, status |-> 200, code |-> "revoked"]]
    /\ sent' = <<>>
    /\ UNCHANGED <<coreVars, boardVars, inviteVars, pollVars, wsVars, now, cacheVars,
                   chatVars, fallbackCache, notifVars>>

\* RevokeInviteView.post: save(update_fields=["is_revoked", "updated_at"]),
\* which waits for a transaction that holds the row
RevokeSave(p) ==
    /\ req[p].op = "invite.revoke" /\ req[p].pc = "save"
    /\ InviteFree(p, req[p].invite)
    /\ invites' = [invites EXCEPT ![req[p].invite].is_revoked = TRUE]
    /\ req' = [req EXCEPT ![p].pc = "done"]
    /\ sent' = <<>>
    /\ UNCHANGED <<coreVars, nextInviteId, boardVars, pollVars, wsVars, now, cacheVars,
                   chatVars, fallbackCache, notifVars>>

\* the clock of timezone.now()
Tick ==
    /\ now < MaxTime
    /\ now' = now + 1
    /\ sent' = <<>>
    /\ UNCHANGED <<coreVars, boardVars, inviteVars, pollVars, wsVars, req, cacheVars,
                   chatVars, fallbackCache, notifVars>>

NextInvite ==
    \/ \E u \in Users, e \in EventIds, h \in 1..MaxExpiresInHours, m \in 0..MaxMaxUses :
          InviteCreate(u, e, h, m)
    \/ \E p \in Racers, u \in Users, i \in InviteIds : AcceptLookup(p, u, i)
    \/ \E p \in Racers : AcceptLock(p)
    \/ \E p \in Racers : AcceptWrite(p)
    \/ \E p \in Procs, u \in Users, i \in InviteIds : RevokeRead(p, u, i)
    \/ \E p \in Procs : RevokeSave(p)
    \/ \E p \in Procs : Finish(p)
    \/ Tick

SpecInvite == InitSeeded /\ [][NextInvite]_vars

(***************************************************************************)
(* Polls: EventPollListCreateView, PollVoteView, PollCloseView.            *)
(***************************************************************************)
\* _ParticipantRoleResolver._is_participant and _is_organizer
IsEventMember(e, u) ==
    \/ IsEventOwnerWrite(e, u)
    \/ IsParticipantRow(e, u)

IsEventOrganizer(e, u) ==
    \/ IsEventOwnerWrite(e, u)
    \/ \E k \in ParticipantOf(e, u) : participants[k].role = "organizer"

\* Vote.objects.filter(poll=q, user=u).values_list("option_id")
UserVotes(q, u) == {o \in OptionIds : <<q, u, o>> \in votes}

\* PollOption.objects.annotate(votes_count=Count("votes")) for option o of poll q
VotesCount(q, o) == Cardinality({v \in votes : v[1] = q /\ v[3] = o})

\* PollReadSerializer(poll).data for the row of poll q and the Vote rows vs:
\* the fields of Meta.fields
PollReadData(q, row, vs) ==
    [id |-> q, event |-> row.event, multiple |-> row.multiple,
     allow_change_vote |-> row.allow_change_vote, is_closed |-> row.is_closed,
     total_votes |-> Cardinality({v \in vs : v[1] = q})]

\* poll_data.get("version", 1) or 1
PayloadVersion(poll_data) ==
    IF "version" \in DOMAIN poll_data /\ poll_data.version # 0 THEN poll_data.version ELSE 1

\* _build_poll_created_payload and _build_poll_updated_payload
BuildPollPayload(e, poll_data) ==
    [event_id |-> e, poll_id |-> poll_data.id, total_votes |-> poll_data.total_votes,
     version |-> PayloadVersion(poll_data)]

\* _build_poll_updated_payload with changed_option_ids: the counters of the
\* touched options, or of every option when the set is empty
BuildPollUpdatedPayload(e, poll_data, changed_option_ids) ==
    BuildPollPayload(e, poll_data)
      @@ [options |-> [o \in (IF changed_option_ids # {} THEN changed_option_ids
                                                         ELSE OptionIds) |->
                         VotesCount(poll_data.id, o)]]

\* _build_poll_closed_payload
BuildPollClosedPayload(e, q, version) ==
    [event_id |-> e, poll_id |-> q, total_votes |-> 0, version |-> version]

\* ws_notify_event(e, type, payload), called after the commit
WsNotifyEvent(e, type, payload) ==
    IF broker # "up" THEN <<>> ELSE
    <<[group |-> ConsumerGroup(e), message_type |-> type, event_id |-> e,
       committed |-> TRUE, receivers |-> groups[ConsumerGroup(e)], payload |-> payload,
       delivered |-> Delivered(ConsumerGroup(e), type, NoUser, EnvelopeBytes)]>>

\* the option_ids of a vote request
OptionIdInputs == UNION {[1..n -> 1..(NumOptions + 1)] : n \in 0..NumOptions}

\* EventPollListCreateView.create
PollCreate(u, e, multiple, allow_change_vote) ==
    /\ events[e] # NoUser
    /\ IsEventOrganizer(e, u)
    /\ nextPollId <= MaxPollId
    /\ polls' = [polls EXCEPT ![nextPollId] =
                    [live |-> TRUE, event |-> e, multiple |-> multiple,
                     allow_change_vote |-> allow_change_vote, is_closed |-> FALSE,
                     version |-> 1]]
    /\ nextPollId' = nextPollId + 1
    /\ sent' = WsNotifyEvent(e, "poll.created",
                  BuildPollPayload(e, PollReadData(nextPollId, polls'[nextPollId], votes)))
    /\ UNCHANGED <<coreVars, boardVars, inviteVars, votes, wsVars, now, req, cacheVars,
                   chatVars, fallbackCache, notifVars>>

\* PollVoteView.post up to the atomic block: get_object, is_voting_closed
\* and the checks of option_ids
VoteBegin(p, u, q, option_ids) ==
    /\ req[p] = Idle
    /\ polls[q].live
    /\ IsEventMember(polls[q].event, u)
    /\ polls[q].version + InFlight("poll.vote") < MaxVersion
    /\ LET ok == /\ ~polls[q].is_closed
                 /\ (~polls[q].multiple => Len(option_ids) = 1)
                 /\ (polls[q].multiple => ValidateOrderedIds(option_ids))
                 /\ SeqRange(option_ids) \subseteq OptionIds
       IN  req' = [req EXCEPT ![p] =
                     [op |-> "poll.vote", pc |-> IF ok THEN "select" ELSE "done",
                      user |-> u, poll |-> q, option_ids |-> option_ids,
                      multiple |-> polls[q].multiple,
                      allow_change_vote |-> polls[q].allow_change_vote,
                      existing |-> {}, to_delete |-> {}, to_create |-> {},
                      changed |-> FALSE, status |-> IF ok THEN 0 ELSE 400]]
    /\ sent' = <<>>
    /\ UNCHANGED <<coreVars, boardVars, inviteVars, pollVars, wsVars, now, cacheVars,
                   chatVars, fallbackCache, notifVars>>

\* the Vote rows a transaction holds FOR UPDATE
LockedVotes(p) ==
    IF req[p].op = "poll.vote" /\ req[p].pc = "write"
    THEN {<<req[p].poll, req[p].user, o>> : o \in req[p].existing}
    ELSE {}

\* a block that inserts the new options and deletes none
VotePlan_KeepsOld(r, existing) ==
    [error |-> FALSE, to_delete |-> {},
     to_create |-> SeqRange(r.option_ids) \ existing]

\* the decisions of the atomic block on the rows read by select_for_update
VotePlan(r, existing) ==
    IF ~r.multiple
    THEN LET selected_id == r.option_ids[1]
         IN  IF existing # {}
             THEN IF selected_id \in existing
                  THEN [error |-> FALSE, to_delete |-> {}, to_create |-> {}]
                  ELSE IF ~r.allow_change_vote
                       THEN [error |-> TRUE, to_delete |-> {}, to_create |-> {}]
                       ELSE [error |-> FALSE, to_delete |-> existing,
                             to_create |-> {selected_id}]
             ELSE [error |-> FALSE, to_delete |-> {}, to_create |-> {selected_id}]
    ELSE LET new_option_ids == SeqRange(r.option_ids)
         IN  IF existing # {} /\ ~r.allow_change_vote /\ new_option_ids # existing
             THEN [error |-> TRUE, to_delete |-> {}, to_create |-> {}]
             ELSE [error |-> FALSE,
                   to_delete |-> IF r.allow_change_vote THEN existing \ new_option_ids ELSE {},
                   to_create |-> new_option_ids \ existing]

\* PollVoteView.post: select_for_update on the votes of the user and the
\* branch on them; the rows stay locked until the commit
VoteSelect(p) ==
    /\ req[p].op = "poll.vote" /\ req[p].pc = "select"
    /\ LET existing == UserVotes(req[p].poll, req[p].user)
           plan == VotePlan(req[p], existing)
       IN  /\ \A r \in Procs \ {p} :
                  LockedVotes(r) \cap {<<req[p].poll, req[p].user, o>> : o \in existing} = {}
           /\ req' = [req EXCEPT ![p] =
                        IF plan.error
                        THEN [@ EXCEPT !.pc = "done", !.status = 400]
                        ELSE [@ EXCEPT !.pc = IF plan.to_delete \cup plan.to_create = {}
                                              THEN "notify" ELSE "write",
                                       !.existing = existing,
                                       !.to_delete = plan.to_delete,
                                       !.to_create = plan.to_create,
                                       !.changed = plan.to_delete \cup plan.to_create # {}]]
    /\ sent' = <<>>
    /\ UNCHANGED <<coreVars, boardVars, inviteVars, pollVars, wsVars, now, cacheVars,
                   chatVars, fallbackCache, notifVars>>

\* PollVoteView.post: the deletes and inserts of the atomic block, the
\* F("version") + 1 update and the commit; Vote.objects.create fails on the
\* unique (poll, user, option) constraint, bulk_create skips the conflicts
VoteWrite(p) ==
    /\ req[p].op = "poll.vote" /\ req[p].pc = "write"
    /\ LET q == req[p].poll
           created == {<<q, req[p].user, o>> : o \in req[p].to_create}
           deleted == {<<q, req[p].user, o>> : o \in req[p].to_delete}
       IN  IF ~req[p].multiple /\ created \cap votes # {}
           THEN /\ req' = [req EXCEPT ![p].pc = "done", ![p].status = 500]
                /\ UNCHANGED <<polls, votes>>
           ELSE /\ votes' = (votes \ deleted) \cup created
                /\ polls' = [polls EXCEPT ![q].version = @ + 1]
                /\ req' = [req EXCEPT ![p].pc = "notify"]
    /\ sent' = <<>>
    /\ UNCHANGED <<coreVars, boardVars, inviteVars, nextPollId, wsVars, now, cacheVars,
                   chatVars, fallbackCache, notifVars>>

\* PollVoteView.post after the atomic block: the refreshed read, the
\* serializer and the poll.updated notification
VoteNotify(p) ==
    /\ req[p].op = "poll.vote" /\ req[p].pc = "notify"
    /\ LET q == req[p].poll
           response_data == PollReadData(q, polls[q], votes)
       IN  sent' = IF req[p].changed
                   THEN WsNotifyEvent(polls[q].event, "poll.updated",
                                      BuildPollUpdatedPayload(
                                          polls[q].event, response_data,
                                          req[p].to_delete \cup req[p].to_create))
                   ELSE <<>>
    /\ req' = [req EXCEPT ![p].pc = "done",
                          ![p].status = IF req[p].changed /\ broker # "up" THEN 500 ELSE 200]
    /\ UNCHANGED <<coreVars, boardVars, inviteVars, pollVars, wsVars, now, cacheVars,
                   chatVars, fallbackCache, notifVars>>

\* PollCloseView.post: if poll.is_closed
AlreadyClosed_Never(q) == FALSE
AlreadyClosed(q) == polls[q].is_closed

\* PollCloseView.post: get_object and the is_closed test
CloseRead(p, u, q) ==
    /\ req[p] = Idle
    /\ polls[q].live
    /\ IsEventOrganizer(polls[q].event, u)
    /\ req' = [req EXCEPT ![p] =
                 [op |-> "poll.close", pc |-> IF AlreadyClosed(q) THEN "done" ELSE "save",
                  user |-> u, poll |-> q, version |-> polls[q].version, status |-> 200]]
    /\ sent' = <<>>
    /\ UNCHANGED <<coreVars, boardVars, inviteVars, pollVars, wsVars, now, cacheVars,
                   chatVars, fallbackCache, notifVars>>

\* PollCloseView.post: poll.version += 1 on the instance that was read,
\* save(update_fields=["is_closed", "updated_at", "version"]), poll.closed
CloseSave(p) ==
    /\ req[p].op = "poll.close" /\ req[p].pc = "save"
    /\ LET q == req[p].poll
           version == req[p].version + 1
       IN  /\ polls' = [polls EXCEPT ![q].is_closed = TRUE, ![q].version = version]
           /\ sent' = WsNotifyEvent(polls[q].event, "poll.closed",
                         BuildPollClosedPayload(polls[q].event, q, version))
    /\ req' = [req EXCEPT ![p].pc = "done",
                          ![p].status = IF broker # "up" THEN 500 ELSE 200]
    /\ UNCHANGED <<coreVars, boardVars, inviteVars, nextPollId, votes, wsVars, now, cacheVars,
                   chatVars, fallbackCache, notifVars>>

NextPoll ==
    \/ \E u \in Users, e \in EventIds, multiple \in BOOLEAN, allow_change_vote \in BOOLEAN :
          PollCreate(u, e, multiple, allow_change_vote)
    \/ \E p \in Procs, u \in Users, q \in PollIds, option_ids \in OptionIdInputs :
          VoteBegin(p, u, q, option_ids)
    \/ \E p \in Procs : VoteSelect(p)
    \/ \E p \in Procs : VoteWrite(p)
    \/ \E p \in Procs : VoteNotify(p)
    \/ \E p \in Procs, u \in Users, q \in PollIds : CloseRead(p, u, q)
    \/ \E p \in Procs : CloseSave(p)
    \/ \E p \in Procs : Finish(p)

SpecPoll == InitSeeded /\ [][NextPoll]_vars

\* the poll service with one request at a time
NextPollSeq ==
    \/ \E u \in Users, e \in EventIds, multiple \in BOOLEAN, allow_change_vote \in BOOLEAN :
          PollCreate(u, e, multiple, allow_change_vote)
    \/ \E u \in Users, q \in PollIds, option_ids \in OptionIdInputs :
          VoteBegin(1, u, q, option_ids)
    \/ VoteSelect(1)
    \/ VoteWrite(1)
    \/ VoteNotify(1)
    \/ \E u \in Users, q \in PollIds : CloseRead(1, u, q)
    \/ CloseSave(1)
    \/ Finish(1)

SpecPollSeq == InitSeeded /\ [][NextPollSeq]_vars

(***************************************************************************)
(* Participants: EventParticipantDetailView and the organizer guards of    *)
(* apps/events/signals.py.                                                 *)
(***************************************************************************)
Roles == {"organizer", "member"}

\* Participant.objects.filter(event=e, role=organizer).exclude(pk=k).exists()
OtherOrganizersExist(e, k) ==
    \E j \in PartIds \ {k} : /\ participants[j].live
                             /\ participants[j].event = e
                             /\ participants[j].role = "organizer"

\* every organizer is taken to have other participants beside them
OtherParticipantsExist_Always(e, k) == TRUE

\* participant.event.participants.exclude(pk=k).exists()
OtherParticipantsExist(e, k) ==
    \E j \in PartIds \ {k} : participants[j].live /\ participants[j].event = e

\* the request of EventParticipantDetailView after get_participant
ParticipantRequest(op, pc, u, e, k, new_role, status, code) ==
    [op |-> op, pc |-> pc, user |-> u, event |-> e, participant |-> k,
     role |-> participants[k].role, new_role |-> new_role,
     status |-> status, code |-> code]

\* EventParticipantDetailView.patch up to participant.save
PatchBegin(p, u, e, k, new_role) ==
    /\ req[p] = Idle
    /\ events[e] # NoUser
    /\ IsEventOrganizer(e, u)
    /\ participants[k].live /\ participants[k].event = e
    /\ LET demotes == participants[k].role = "organizer" /\ new_role # "organizer"
           other_exists == OtherOrganizersExist(e, k)
       IN  req' = [req EXCEPT ![p] =
             IF new_role = participants[k].role
             THEN ParticipantRequest("participant.patch", "done", u, e, k, new_role, 200, "")
             ELSE IF demotes /\ participants[k].user = u /\ ~other_exists
             THEN ParticipantRequest("participant.patch", "done", u, e, k, new_role, 400,
                     IF OtherParticipantsExist(e, k) THEN "self_last_organizer"
                                                     ELSE "last_organizer")
             ELSE IF demotes /\ ~other_exists
             THEN ParticipantRequest("participant.patch", "done", u, e, k, new_role, 400,
                                     "last_organizer")
             ELSE ParticipantRequest("participant.patch", "signal", u, e, k, new_role, 0, "")]
    /\ sent' = <<>>
    /\ UNCHANGED <<coreVars, boardVars, inviteVars, pollVars, wsVars, now, cacheVars,
                   chatVars, fallbackCache, notifVars>>

\* prevent_last_organizer_demotion, the pre_save receiver
PatchSignal(p) ==
    /\ req[p].op = "participant.patch" /\ req[p].pc = "signal"
    /\ LET k == req[p].participant
           previous == participants[k]
       IN  req' = [req EXCEPT ![p] =
             IF /\ previous.live
                /\ previous.role = "organizer"
                /\ req[p].new_role # "organizer"
                /\ ~OtherOrganizersExist(previous.event, k)
             THEN [@ EXCEPT !.pc = "done", !.status = 400, !.code = "last_organizer"]
             ELSE [@ EXCEPT !.pc = "write"]]
    /\ sent' = <<>>
    /\ UNCHANGED <<coreVars, boardVars, inviteVars, pollVars, wsVars, now, cacheVars,
                   chatVars, fallbackCache, notifVars>>

\* participant.save(update_fields=["role"]) and the commit; the UPDATE of a
\* row that is gone affects no rows and save raises DatabaseError
PatchWrite(p) ==
    /\ req[p].op = "participant.patch" /\ req[p].pc = "write"
    /\ LET k == req[p].participant
       IN  IF participants[k].live
           THEN /\ participants' = [participants EXCEPT ![k].role = req[p].new_role]
                /\ req' = [req EXCEPT ![p].pc = "done", ![p].status = 200]
           ELSE /\ UNCHANGED participants
                /\ req' = [req EXCEPT ![p].pc = "done", ![p].status = 500]
    /\ sent' = <<>>
    /\ UNCHANGED <<users, events, nextPartId, boardVars, inviteVars, pollVars, wsVars, now,
                   cacheVars, chatVars, fallbackCache, notifVars>>

\* EventParticipantDetailView.delete up to participant.delete
DeleteBegin(p, u, e, k) ==
    /\ req[p] = Idle
    /\ events[e] # NoUser
    /\ IsEventOrganizer(e, u)
    /\ participants[k].live /\ participants[k].event = e
    /\ req' = [req EXCEPT ![p] =
          IF participants[k].role = "organizer" /\ ~OtherOrganizersExist(e, k)
          THEN ParticipantRequest("participant.delete", "done", u, e, k, "", 400,
                                  "last_organizer")
          ELSE ParticipantRequest("participant.delete", "signal", u, e, k, "", 0, "")]
    /\ sent' = <<>>
    /\ UNCHANGED <<coreVars, boardVars, inviteVars, pollVars, wsVars, now, cacheVars,
                   chatVars, fallbackCache, notifVars>>

\* prevent_last_organizer_delete, the pre_delete receiver, on the instance
\* the view has read
DeleteSignal(p) ==
    /\ req[p].op = "participant.delete" /\ req[p].pc = "signal"
    /\ req' = [req EXCEPT ![p] =
          IF /\ req[p].role = "organizer"
             /\ ~OtherOrganizersExist(req[p].event, req[p].participant)
          THEN [@ EXCEPT !.pc = "done", !.status = 400, !.code = "last_organizer"]
          ELSE [@ EXCEPT !.pc = "write"]]
    /\ sent' = <<>>
    /\ UNCHANGED <<coreVars, boardVars, inviteVars, pollVars, wsVars, now, cacheVars,
                   chatVars, fallbackCache, notifVars>>

\* participant.delete() and the commit; Task.assignee is SET_NULL
DeleteWrite(p) ==
    /\ req[p].op = "participant.delete" /\ req[p].pc = "write"
    /\ LET k == req[p].participant
       IN  /\ participants' = [participants EXCEPT ![k] = NoParticipantRow]
           /\ tasks' = [t \in TaskIds |->
                          IF tasks[t].live /\ tasks[t].assignee = k
                          THEN [tasks[t] EXCEPT !.assignee = NoPart] ELSE tasks[t]]
    /\ req' = [req EXCEPT ![p].pc = "done", ![p].status = 204]
    /\ sent' = <<>>
    /\ UNCHANGED <<users, events, nextPartId, taskLists, nextListId, nextTaskId, dependsOn,
                   cacheVars, inviteVars, pollVars, wsVars, now, chatVars, fallbackCache,
                   notifVars>>

NextPart ==
    \/ \E p \in Procs, u \in Users, e \in EventIds, k \in PartIds, new_role \in Roles :
          PatchBegin(p, u, e, k, new_role)
    \/ \E p \in Procs : PatchSignal(p)
    \/ \E p \in Procs : PatchWrite(p)
    \/ \E p \in Procs, u \in Users, e \in EventIds, k \in PartIds : DeleteBegin(p, u, e, k)
    \/ \E p \in Procs : DeleteSignal(p)
    \/ \E p \in Procs : DeleteWrite(p)
    \/ \E p \in Procs : Finish(p)

SpecPart == InitSeeded /\ [][NextPart]_vars

(***************************************************************************)
(* The board while the channel layer's backend fails and recovers.         *)
(***************************************************************************)
\* the Redis server of the channel layer becomes unreachable
BrokerFail ==
    /\ broker = "up"
    /\ broker' = "down"
    /\ sent' = <<>>
    /\ UNCHANGED <<coreVars, boardVars, inviteVars, pollVars, conns, groups, now, req,
                   cacheVars, chatVars, fallbackCache, notifVars>>

BrokerRecover ==
    /\ broker = "down"
    /\ broker' = "up"
    /\ sent' = <<>>
    /\ UNCHANGED <<coreVars, boardVars, inviteVars, pollVars, conns, groups, now, req,
                   cacheVars, chatVars, fallbackCache, notifVars>>

NextBroker ==
    \/ BrokerFail
    \/ BrokerRecover
    \/ CreateSteps(1, MaxConcListId, MaxConcTaskId)
    \/ AtomicSteps(1)
    \/ Finish(1)

SpecBroker == InitSeeded /\ [][NextBroker]_vars

(***************************************************************************)
(* Task status: TaskViewSet.status with TaskStatusSerializer.              *)
(***************************************************************************)
\* _validate_dependencies_completed(dependencies): no task of the list is
\* short of done
ValidateDependenciesCompleted_Always(dependencies) == TRUE
ValidateDependenciesCompleted(dependencies) ==
    {d \in dependencies : tasks[d].status # "done"} = {}

\* TaskStatusSerializer.validate_status(value) for the task of the context
ValidateStatus(t, value) ==
    value \in {"doing", "done"} => ValidateDependenciesCompleted(dependsOn[t])

\* IsEventOwner or IsTaskAssignee on the task
MayChangeStatus(t, u) ==
    \/ events[taskLists[tasks[t].list].event] = u
    \/ /\ tasks[t].assignee # NoPart
       /\ participants[tasks[t].assignee].user = u

\* TaskViewSet.status: get_object, the permissions and the serializer
StatusBegin(p, u, t, new_status) ==
    /\ req[p] = Idle
    /\ VisibleTask(t, u)
    /\ LET r == [op |-> "task.status", pc |-> "done", task |-> t, user |-> u,
                 event |-> taskLists[tasks[t].list].event, new_status |-> new_status,
                 status |-> 200, code |-> "status_updated"]
       IN  req' = [req EXCEPT ![p] =
                     IF ~MayChangeStatus(t, u)
                     THEN [r EXCEPT !.status = 403, !.code = "forbidden"]
                     ELSE IF ~ValidateStatus(t, new_status)
                     THEN [r EXCEPT !.status = 400, !.code = "invalid"]
                     ELSE IF new_status # tasks[t].status
                     THEN [r EXCEPT !.pc = "update", !.status = 0, !.code = ""]
                     ELSE r]
    /\ sent' = <<>>
    /\ UNCHANGED <<coreVars, boardVars, inviteVars, pollVars, wsVars, now, cacheVars,
                   chatVars, fallbackCache, notifVars>>

\* TaskViewSet.status: the UPDATE, refresh_from_db, the notifications and
\* invalidate_cached_progress
StatusUpdate(p) ==
    /\ req[p].op = "task.status" /\ req[p].pc = "update"
    /\ TasksFree(p, {req[p].task})
    /\ IF ~tasks[req[p].task].live
       THEN /\ req' = [req EXCEPT ![p].pc = "done", ![p].status = 500,
                                  ![p].code = "does_not_exist"]
            /\ sent' = <<>>
            /\ UNCHANGED <<tasks, progressCache>>
       ELSE /\ tasks' = [tasks EXCEPT ![req[p].task].status = req[p].new_status]
            /\ IF broker = "up"
               THEN /\ sent' = TaskNotify(req[p].event,
                                          <<"task.updated", "progress.invalidate">>, TRUE)
                    /\ progressCache' = InvalidateCachedProgress(req[p].event)
                    /\ req' = [req EXCEPT ![p].pc = "done", ![p].status = 200,
                                          ![p].code = "status_updated"]
               ELSE /\ sent' = <<>>
                    /\ UNCHANGED progressCache
                    /\ req' = [req EXCEPT ![p].pc = "done", ![p].status = 500,
                                          ![p].code = "publish_failed"]
    /\ UNCHANGED <<coreVars, taskLists, nextListId, nextTaskId, dependsOn, inviteVars,
                   pollVars, wsVars, now, clock, chatVars, fallbackCache, notifVars>>

\* a board of one list whose tasks depend on tasks created before them; the
\* first task is assigned to the member of participant row 3
SeededTasks ==
    [t \in TaskIds |->
        [live |-> TRUE, list |-> 1, order |-> t - 1,
         assignee |-> IF t = 1 THEN 3 ELSE NoPart, status |-> "todo"]]

InitNoBoard ==
    /\ users = [u \in Users |-> [is_active |-> TRUE]]
    /\ events = [e \in EventIds |-> IF e \in {1, 2} THEN e ELSE NoUser]
    /\ participants = SeededParticipants
    /\ nextPartId = 5
    /\ progressCache = [e \in EventIds |-> NoCacheEntry]
    /\ fallbackCache = [e \in EventIds |-> NoCacheEntry]
    /\ clock = 0
    /\ messages = [m \in MessageIds |-> NoMessageRow]
    /\ nextMessageId = 1
    /\ invites = [i \in InviteIds |-> NoInviteRow]
    /\ nextInviteId = 1
    /\ polls = [q \in PollIds |-> NoPollRow]
    /\ nextPollId = 1
    /\ votes = {}
    /\ now = 0
    /\ conns = [c \in Conns |-> NewConn]
    /\ groups = [g \in GroupNames |-> {}]
    /\ broker = "up"
    /\ req = [p \in Procs |-> Idle]
    /\ sent = <<>>

InitStatus ==
    /\ InitNoBoard
    /\ NoNotifications
    /\ taskLists = [l \in ListIds |->
                      IF l = 1 THEN [live |-> TRUE, event |-> 1, title |-> 1, order |-> 0]
                      ELSE NoListRow]
    /\ nextListId = 2
    /\ tasks = SeededTasks
    /\ nextTaskId = MaxTaskId + 1
    /\ dependsOn \in {d \in [TaskIds -> SUBSET TaskIds] :
                        \A t \in TaskIds : d[t] \subseteq 1..(t - 1)}

NextStatus ==
    \/ \E p \in Procs, u \in Users, t \in TaskIds, st \in Statuses : StatusBegin(p, u, t, st)
    \/ \E p \in Procs : StatusUpdate(p)
    \/ \E p \in Procs : Finish(p)

SpecStatus == InitStatus /\ [][NextStatus]_vars

(***************************************************************************)
(* The gateway while accounts are deactivated and activated.               *)
(***************************************************************************)
\* the admin's user form saves is_active; EmailConfirmView sets it
UserSetActive(u, is_active) ==
    /\ users[u].is_active # is_active
    /\ users' = [users EXCEPT ![u].is_active = is_active]
    /\ sent' = <<>>
    /\ UNCHANGED <<events, participants, nextPartId, boardVars, inviteVars, pollVars,
                   wsVars, now, req, cacheVars, chatVars, fallbackCache, notifVars>>

NextWsUsers ==
    \/ \E c \in Conns, token \in Tokens, e \in RouteEventIds : Connect(c, token, e)
    \/ \E c \in Conns : Disconnect(c)
    \/ \E u \in Users, is_active \in BOOLEAN : UserSetActive(u, is_active)

SpecWsUsers == InitSeeded /\ [][NextWsUsers]_vars

(***************************************************************************)
(* Typing indicators: EventConsumer.receive_json with chat.typing.         *)
(***************************************************************************)
\* consumers.py
TYPING_RATE_LIMIT_SECONDS == 1

\* _typing_allowed(event_id) on the connection's scope: the test of
\* now - last_value against the limit
TypingAllowed_Always(last_value) == TRUE
TypingAllowed(last_value) == ~(clock - last_value < TYPING_RATE_LIMIT_SECONDS * 1000)

\* the group_send of _handle_chat_typing
TypingMsg(group, e, user_id) ==
    [group |-> group, message_type |-> "chat.typing", event_id |-> e, committed |-> TRUE,
     receivers |-> groups[group], sender_id |-> user_id,
     delivered |-> Delivered(group, "chat.typing", user_id, EnvelopeBytes)]

\* receive_json({"type": "chat.typing", "payload": {"event_id": event_id}})
\* on an accepted connection: a payload of another event and a message
\* inside the window are ignored; _typing_allowed stores the time before
\* group_send is called, and an exception of group_send ends the consumer
ReceiveTyping(c, event_id) ==
    /\ conns[c].state = "open"
    /\ IF event_id # conns[c].event_id \/ ~TypingAllowed(conns[c].typing_last_sent)
       THEN /\ sent' = <<>>
            /\ UNCHANGED conns
       ELSE IF broker = "up"
       THEN /\ conns' = [conns EXCEPT ![c].typing_last_sent = clock]
            /\ sent' = <<TypingMsg(ConsumerGroup(event_id), event_id, conns[c].user)>>
       ELSE /\ conns' = [conns EXCEPT ![c].typing_last_sent = clock, ![c].state = "closed"]
            /\ sent' = <<>>
    /\ UNCHANGED <<coreVars, boardVars, inviteVars, pollVars, groups, broker, now, req,
                   cacheVars, chatVars, fallbackCache, notifVars>>

\* time passes
ClockTick(step, max) ==
    /\ clock + step <= max
    /\ clock' = clock + step
    /\ sent' = <<>>
    /\ UNCHANGED <<coreVars, boardVars, inviteVars, pollVars, wsVars, now, req,
                   progressCache, chatVars, fallbackCache, notifVars>>

NextTyping ==
    \/ \E c \in Conns, token \in Tokens, e \in RouteEventIds : Connect(c, token, e)
    \/ \E c \in Conns : Disconnect(c)
    \/ \E c \in Conns, e \in RouteEventIds : ReceiveTyping(c, e)
    \/ ClockTick(TypingTickMs, MaxTypingClock)

SpecTyping == InitSeeded /\ [][NextTyping]_vars

(***************************************************************************)
(* Progress: EventProgressView over the cache, beside the board mutations. *)
(***************************************************************************)
\* EventProgressView.get up to compute_event_progress: the permission, the
\* cache lookup and, on a miss, the aggregate query
ProgressGet(p, u, e) ==
    /\ req[p] = Idle
    /\ events[e] # NoUser
    /\ LET r == [op |-> "progress.get", pc |-> "done", event |-> e,
                 status |-> 200, payload |-> NoPayload, cached |-> FALSE]
       IN  req' = [req EXCEPT ![p] =
                     IF events[e] # u /\ ~IsParticipantRow(e, u)
                     THEN [r EXCEPT !.status = 403]
                     ELSE IF CacheHit(e)
                     THEN [r EXCEPT !.payload = progressCache[e].payload, !.cached = TRUE]
                     ELSE [r EXCEPT !.pc = "set", !.payload = ComputeEventProgress(e)]]
    /\ sent' = <<>>
    /\ UNCHANGED <<coreVars, boardVars, inviteVars, pollVars, wsVars, now, cacheVars,
                   chatVars, fallbackCache, notifVars>>

\* EventProgressView.get: set_cached_progress and the response
ProgressSet(p) ==
    /\ req[p].op = "progress.get" /\ req[p].pc = "set"
    /\ progressCache' = SetCachedProgress(req[p].event, req[p].payload)
    /\ req' = [req EXCEPT ![p].pc = "done"]
    /\ sent' = <<>>
    /\ UNCHANGED <<coreVars, boardVars, inviteVars, pollVars, wsVars, now, clock,
                   chatVars, fallbackCache, notifVars>>

\* PATCH of a task list's title: TaskListViewSet has no perform_update, the
\* mixin's serializer.save() runs the post_save receiver and sends nothing
TaskListUpdate(p, u, l, title) ==
    /\ req[p] = Idle
    /\ VisibleList(l, u)
    /\ IsEventOwnerWrite(taskLists[l].event, u)
    /\ ListsFree(p, {l})
    /\ taskLists' = [taskLists EXCEPT ![l].title = title]
    /\ progressCache' = InvalidateProgressCache(taskLists[l].event)
    /\ req' = [req EXCEPT ![p] = [op |-> "tasklist.update", pc |-> "done",
                                  event |-> taskLists[l].event, status |-> 200]]
    /\ sent' = <<>>
    /\ UNCHANGED <<coreVars, tasks, nextListId, nextTaskId, dependsOn, inviteVars, pollVars,
                   wsVars, now, clock, chatVars, fallbackCache, notifVars>>

\* a board of one list with one task in event 1, nothing cached yet
InitProgress ==
    /\ InitNoBoard
    /\ NoNotifications
    /\ taskLists = [l \in ListIds |->
                      IF l = 1 THEN [live |-> TRUE, event |-> 1, title |-> 1, order |-> 0]
                      ELSE NoListRow]
    /\ tasks = [t \in TaskIds |->
                  IF t = 1 THEN [live |-> TRUE, list |-> 1, order |-> 0,
                                  assignee |-> NoPart, status |-> "todo"]
                  ELSE NoTaskRow]
    /\ nextListId = 2
    /\ nextTaskId = 2
    /\ dependsOn = [t \in TaskIds |-> {}]

\* handler 1 edits the board while handler 2 reads the progress
NextProgress ==
    \/ \E u \in Users, l \in ListIds : TaskCreateRead(1, u, l, MaxProgressTaskId)
    \/ TaskCreateSave(1)
    \/ \E u \in Users, t \in TaskIds : TaskDestroyBegin(1, u, t)
    \/ BoardCommit(1)
    \/ \E u \in Users, t \in TaskIds, st \in Statuses : StatusBegin(1, u, t, st)
    \/ StatusUpdate(1)
    \/ \E u \in Users, l \in ListIds, title \in Titles : TaskListUpdate(1, u, l, title)
    \/ \E u \in Users, e \in EventIds : ProgressGet(2, u, e)
    \/ ProgressSet(2)
    \/ \E p \in Procs : Finish(p)
    \/ ClockTick(ProgressTickMs, MaxProgressClock)

SpecProgress == InitProgress /\ [][NextProgress]_vars

(***************************************************************************)
(* Chat: EventMessageListCreateView.post and ws_chat_send.                 *)
(***************************************************************************)
\* views.py: MESSAGE_RATE_LIMIT, in milliseconds
MESSAGE_RATE_LIMIT == 800

\* serializers.py: MessageCreateSerializer.text, max_length
MaxTextLength == 4000

\* the lengths of the trimmed text a client can send
TextLens == {0, 1, MaxTextLength, MaxTextLength + 1}

\* MessageCreateSerializer.is_valid
TextValid(text_len) == text_len > 0 /\ text_len <= MaxTextLength

\* Message.objects.filter(event=e, author=u)
AuthorMessages(e, u) ==
    {m \in MessageIds : messages[m].live /\ messages[m].event = e /\ messages[m].author = u}

\* .order_by("-created_at", "-id").first(), 0 when there is none
LastMessage(e, u) ==
    LET S == AuthorMessages(e, u)
    IN  IF S = {} THEN 0
        ELSE CHOOSE m \in S :
                \A k \in S : \/ messages[k].created_at < messages[m].created_at
                             \/ messages[k].created_at = messages[m].created_at /\ k <= m

\* elapsed < MESSAGE_RATE_LIMIT for the latest message of the author
TooSoon_Never(last_message) == FALSE
TooSoon(last_message) ==
    last_message # 0 /\ clock - messages[last_message].created_at < MESSAGE_RATE_LIMIT

\* the size of the encoded chat.message envelope: the text in UTF-8 and the
\* other fields
ChatMessageBytes(text_len) == EnvelopeBytes + 4 * text_len

\* ws_chat_send(e, "chat.message", chat_payload)
ChatMsg(e, m, author, text_len) ==
    [group |-> ConsumerGroup(e), message_type |-> "chat.message", event_id |-> e,
     committed |-> TRUE, receivers |-> groups[ConsumerGroup(e)],
     payload |-> [id |-> m, author |-> author],
     delivered |-> Delivered(ConsumerGroup(e), "chat.message", NoUser,
                             ChatMessageBytes(text_len))]

\* post up to the rate limit: get_event with IsEventParticipant, the
\* serializer, the latest message of the author and the test of elapsed
ChatPostRead(p, u, e, text_len, bound) ==
    /\ req[p] = Idle
    /\ events[e] # NoUser
    /\ nextMessageId + InFlight("chat.post") <= bound
    /\ LET r == [op |-> "chat.post", pc |-> "done", user |-> u, event |-> e,
                 text_len |-> text_len, status |-> 201]
       IN  req' = [req EXCEPT ![p] =
                     IF events[e] # u /\ ~IsParticipantRow(e, u)
                     THEN [r EXCEPT !.status = 403]
                     ELSE IF ~TextValid(text_len)
                     THEN [r EXCEPT !.status = 400]
                     ELSE IF TooSoon(LastMessage(e, u))
                     THEN [r EXCEPT !.status = 429]
                     ELSE [r EXCEPT !.pc = "create"]]
    /\ sent' = <<>>
    /\ UNCHANGED <<coreVars, boardVars, inviteVars, pollVars, wsVars, now, cacheVars,
                   chatVars, fallbackCache, notifVars>>

\* Message.objects.create (created_at is auto_now_add) and ws_chat_send,
\* whose exception nothing catches
ChatPostCreate(p) ==
    /\ req[p].op = "chat.post" /\ req[p].pc = "create"
    /\ messages' = [messages EXCEPT ![nextMessageId] =
                      [live |-> TRUE, event |-> req[p].event, author |-> req[p].user,
                       created_at |-> clock]]
    /\ nextMessageId' = nextMessageId + 1
    /\ IF broker = "up"
       THEN /\ sent' = <<ChatMsg(req[p].event, nextMessageId, req[p].user, req[p].text_len)>>
            /\ req' = [req EXCEPT ![p].pc = "done"]
       ELSE /\ sent' = <<>>
            /\ req' = [req EXCEPT ![p] = PublishFailed(req[p].op, req[p].event, TRUE)]
    /\ UNCHANGED <<coreVars, boardVars, inviteVars, pollVars, wsVars, now, cacheVars,
                   fallbackCache, notifVars>>

\* two clients post to the chat while time passes
NextChat ==
    \/ \E p \in Racers, u \in Users, e \in EventIds, n \in TextLens :
          ChatPostRead(p, u, e, n, MaxMessageId)
    \/ \E p \in Racers : ChatPostCreate(p)
    \/ \E p \in Racers : Finish(p)
    \/ ClockTick(ChatTickMs, MaxChatClock)

SpecChat == InitSeeded /\ [][NextChat]_vars

\* connections of an event receive typing indicators and chat messages
NextChatWs ==
    \/ \E c \in Conns, token \in Tokens, e \in RouteEventIds : Connect(c, token, e)
    \/ \E c \in Conns : Disconnect(c)
    \/ \E c \in Conns, e \in RouteEventIds : ReceiveTyping(c, e)
    \/ \E u \in Users, e \in EventIds, n \in TextLens : ChatPostRead(1, u, e, n, MaxWsMessageId)
    \/ ChatPostCreate(1)
    \/ Finish(1)
    \/ ClockTick(TypingTickMs, MaxTypingClock)

SpecChatWs == InitSeeded /\ [][NextChatWs]_vars

(***************************************************************************)
(* Board edits with their refusals: reorder, move, assign.                 *)
(***************************************************************************)
\* the answer of a board request that wrote nothing
Refused(op, u, e, target, ids, status, code) ==
    [op |-> op, pc |-> "done", user |-> u, event |-> e, target |-> target, ids |-> ids,
     status |-> status, code |-> code]

\* ReorderTasksInListView.post when it refuses: IsEventOwnerWrite, then
\* _validate_ordered_ids, then the comparison with the locked rows
ReorderTasksRefuse(p, u, l, ids) ==
    /\ req[p] = Idle
    /\ taskLists[l].live
    /\ LET e == taskLists[l].event
       IN  \/ /\ ~IsEventOwnerWrite(e, u)
              /\ req' = [req EXCEPT ![p] = Refused("task.reorder", u, e, l, ids, 403, "forbidden")]
           \/ /\ IsEventOwnerWrite(e, u)
              /\ ~ValidateOrderedIds(ids)
              /\ req' = [req EXCEPT ![p] = Refused("task.reorder", u, e, l, ids, 400, "invalid")]
           \/ /\ IsEventOwnerWrite(e, u)
              /\ ValidateOrderedIds(ids)
              /\ TasksFree(p, ListTasks(l))
              /\ ~IdsMatch(ListTasks(l), ids)
              /\ req' = [req EXCEPT ![p] =
                            Refused("task.reorder", u, e, l, ids, 400, "invalid_ids")]
    /\ sent' = <<>>
    /\ UNCHANGED <<coreVars, boardVars, inviteVars, pollVars, wsVars, now, cacheVars,
                   chatVars, fallbackCache, notifVars>>

\* ReorderTaskListsView.post when it refuses
ReorderTaskListsRefuse(p, u, e, ids) ==
    /\ req[p] = Idle
    /\ events[e] # NoUser
    /\ \/ /\ ~IsEventOwnerWrite(e, u)
          /\ req' = [req EXCEPT ![p] = Refused("tasklist.reorder", u, e, e, ids, 403, "forbidden")]
       \/ /\ IsEventOwnerWrite(e, u)
          /\ ~ValidateOrderedIds(ids)
          /\ req' = [req EXCEPT ![p] = Refused("tasklist.reorder", u, e, e, ids, 400, "invalid")]
       \/ /\ IsEventOwnerWrite(e, u)
          /\ ValidateOrderedIds(ids)
          /\ ListsFree(p, EventLists(e))
          /\ ~IdsMatch(EventLists(e), ids)
          /\ req' = [req EXCEPT ![p] =
                        Refused("tasklist.reorder", u, e, e, ids, 400, "invalid_ids")]
    /\ sent' = <<>>
    /\ UNCHANGED <<coreVars, boardVars, inviteVars, pollVars, wsVars, now, cacheVars,
                   chatVars, fallbackCache, notifVars>>

\* TaskViewSet.destroy by a participant who is not the owner
TaskDestroyRefuse(p, u, t) ==
    /\ req[p] = Idle
    /\ VisibleTask(t, u)
    /\ events[taskLists[tasks[t].list].event] # u
    /\ req' = [req EXCEPT ![p] =
                  Refused("task.destroy", u, taskLists[tasks[t].list].event, t, <<>>, 403,
                          "forbidden")]
    /\ sent' = <<>>
    /\ UNCHANGED <<coreVars, boardVars, inviteVars, pollVars, wsVars, now, cacheVars,
                   chatVars, fallbackCache, notifVars>>

\* TaskAssignSerializer.validate_assignee_participant_id
ValidateAssignee(t, k) ==
    k # NoPart => participants[k].live /\ participants[k].event = taskLists[tasks[t].list].event

\* TaskViewSet.assign: get_object, IsEventOwner on the task, the serializer,
\* the UPDATE and the notifications
TaskAssign(p, u, t, k) ==
    /\ req[p] = Idle
    /\ VisibleTask(t, u)
    /\ TasksFree(p, {t})
    /\ LET e == taskLists[tasks[t].list].event
           r == [op |-> "task.assign", pc |-> "done", user |-> u, event |-> e, target |-> t,
                 ids |-> <<>>, status |-> 200, code |-> "assigned"]
       IN  IF events[e] # u
           THEN /\ req' = [req EXCEPT ![p] = [r EXCEPT !.status = 403, !.code = "forbidden"]]
                /\ sent' = <<>>
                /\ UNCHANGED <<tasks, progressCache>>
           ELSE IF ~ValidateAssignee(t, k)
           THEN /\ req' = [req EXCEPT ![p] = [r EXCEPT !.status = 400, !.code = "invalid"]]
                /\ sent' = <<>>
                /\ UNCHANGED <<tasks, progressCache>>
           ELSE /\ tasks' = [tasks EXCEPT ![t].assignee = k]
                /\ IF broker = "up"
                   THEN /\ sent' = TaskNotify(e, <<"task.updated", "progress.invalidate">>, TRUE)
                        /\ progressCache' = InvalidateCachedProgress(e)
                        /\ req' = [req EXCEPT ![p] = r]
                   ELSE /\ sent' = <<>>
                        /\ UNCHANGED progressCache
                        /\ req' = [req EXCEPT ![p] = PublishFailed("task.assign", e, TRUE)]
    /\ UNCHANGED <<coreVars, taskLists, nextListId, nextTaskId, dependsOn, inviteVars,
                   pollVars, wsVars, now, clock, chatVars, fallbackCache, notifVars>>

\* PATCH of a task with {"list": l2}: get_object, IsEventOwnerWrite on the
\* event of l2 and on the task, TaskSerializer.validate, serializer.save
\* (order is read-only and stays as it is) and perform_update
TaskUpdateList(p, u, t, l2) ==
    /\ req[p] = Idle
    /\ VisibleTask(t, u)
    /\ taskLists[l2].live
    /\ TasksFree(p, {t})
    /\ LET e == taskLists[tasks[t].list].event
           e2 == taskLists[l2].event
           r == [op |-> "task.update", pc |-> "done", event |-> e2, target |-> t,
                 ids |-> <<>>, status |-> 200, code |-> "updated"]
       IN  IF ~(IsEventOwnerWrite(e2, u) /\ IsEventOwnerWrite(e, u))
           THEN /\ req' = [req EXCEPT ![p] = [r EXCEPT !.status = 403, !.code = "forbidden"]]
                /\ sent' = <<>>
                /\ UNCHANGED <<tasks, progressCache>>
           ELSE IF ~ValidateStatus(t, tasks[t].status)
           THEN /\ req' = [req EXCEPT ![p] = [r EXCEPT !.status = 400, !.code = "invalid"]]
                /\ sent' = <<>>
                /\ UNCHANGED <<tasks, progressCache>>
           ELSE /\ tasks' = [tasks EXCEPT ![t].list = l2]
                /\ progressCache' = InvalidateProgressCache(e2)
                /\ IF broker = "up"
                   THEN /\ sent' = TaskNotify(e2, <<"task.updated", "progress.invalidate">>,
                                              TRUE)
                        /\ req' = [req EXCEPT ![p] = r]
                   ELSE /\ sent' = <<>>
                        /\ req' = [req EXCEPT ![p] = PublishFailed("task.update", e2, TRUE)]
    /\ UNCHANGED <<coreVars, taskLists, nextListId, nextTaskId, dependsOn, inviteVars,
                   pollVars, wsVars, now, clock, chatVars, fallbackCache, notifVars>>

\* a board of two lists in event 1: tasks 1 and 2 in list 1, task 3 in list 2
InitEdit ==
    /\ InitNoBoard
    /\ NoNotifications
    /\ taskLists = [l \in ListIds |-> [live |-> TRUE, event |-> 1, title |-> 1, order |-> l - 1]]
    /\ tasks = [t \in TaskIds |->
                  [live |-> TRUE, list |-> IF t <= 2 THEN 1 ELSE 2,
                   order |-> IF t = 2 THEN 1 ELSE 0, assignee |-> NoPart, status |-> "todo"]]
    /\ nextListId = MaxListId + 1
    /\ nextTaskId = MaxTaskId + 1
    /\ dependsOn = [t \in TaskIds |-> {}]

\* one client at a time reorders, moves and deletes
NextEdit ==
    \/ \E u \in Users, l \in ListIds, ids \in OrderedIdsInputs(TaskIds) :
          ReorderTasksBegin(1, u, l, ids) \/ ReorderTasksRefuse(1, u, l, ids)
    \/ \E u \in Users, e \in EventIds, ids \in OrderedIdsInputs(ListIds) :
          ReorderTaskListsBegin(1, u, e, ids) \/ ReorderTaskListsRefuse(1, u, e, ids)
    \/ \E u \in Users, t \in TaskIds : TaskDestroyBegin(1, u, t) \/ TaskDestroyRefuse(1, u, t)
    \/ BoardCommit(1)
    \/ \E u \in Users, t \in TaskIds, l \in ListIds : TaskUpdateList(1, u, t, l)
    \/ Finish(1)

SpecEdit == InitEdit /\ [][NextEdit]_vars

\* the participants whose role a client may try to assign a task to: none,
\* a member of event 1 and the organizer of event 2
AssignInputs == {NoPart, 2, 4}

\* roles change while one client at a time edits the board
NextBoardRoles ==
    \/ \E u \in Users, l \in ListIds, ids \in OrderedIdsInputs(TaskIds) :
          ReorderTasksBegin(1, u, l, ids) \/ ReorderTasksRefuse(1, u, l, ids)
    \/ \E u \in Users, e \in EventIds, ids \in OrderedIdsInputs(ListIds) :
          ReorderTaskListsBegin(1, u, e, ids) \/ ReorderTaskListsRefuse(1, u, e, ids)
    \/ \E u \in Users, t \in TaskIds : TaskDestroyBegin(1, u, t) \/ TaskDestroyRefuse(1, u, t)
    \/ BoardCommit(1)
    \/ \E u \in Users, t \in TaskIds, k \in AssignInputs : TaskAssign(1, u, t, k)
    \/ \E u \in Users, e \in EventIds, k \in PartIds, r \in Roles : PatchBegin(1, u, e, k, r)
    \/ PatchSignal(1)
    \/ PatchWrite(1)
    \/ Finish(1)

SpecBoardRoles == InitEdit /\ [][NextBoardRoles]_vars

(***************************************************************************)
(* Cache: cache_utils.py, the remote cache beside the in-process map.      *)
(***************************************************************************)
\* cache_utils.py: _CACHE_ERRORS, the exception classes the helpers catch
CACHE_ERRORS == {"ConnectionInterrupted", "RedisConnectionError"}

\* what one call of django.core.cache.cache does: it answers, or it raises an
\* exception of the remote cache's client (a connection error, or an error
\* of another class such as a response error)
RemoteOutcomes == {"ok", "ConnectionInterrupted", "RedisConnectionError", "ResponseError"}

\* _fallback_get: the entry exists and expires_at < monotonic()
FallbackExpired(e) == fallbackCache[e].present /\ fallbackCache[e].expires_at < clock

\* _fallback_get: the value returned, NoPayload standing for None
FallbackGet(e) ==
    IF fallbackCache[e].present /\ ~FallbackExpired(e) THEN fallbackCache[e].payload
                                                      ELSE NoPayload

\* _fallback_get: an expired entry is popped
FallbackAfterGet(e) ==
    IF FallbackExpired(e) THEN [fallbackCache EXCEPT ![e] = NoCacheEntry] ELSE fallbackCache

\* _fallback_set with the timeout of set_cached_progress
FallbackSet(e, value) ==
    [fallbackCache EXCEPT ![e] = [present |-> TRUE, payload |-> value,
                                  expires_at |-> clock + CACHE_TTL_SECONDS * 1000]]

\* the locals of one call of a cache helper: raised is the exception that
\* leaves the helper, "none" when it returns
CacheCall(op, e, outcome, raised, result) ==
    [op |-> op, pc |-> "done", event |-> e, outcome |-> outcome, raised |-> raised,
     result |-> result]

\* cache_safe_get(key)
CacheSafeGet(p, e, outcome) ==
    /\ req[p] = Idle
    /\ IF outcome = "ok"
       THEN /\ req' = [req EXCEPT ![p] =
                         CacheCall("cache.get", e, outcome, "none",
                                   IF CacheHit(e) THEN progressCache[e].payload
                                                  ELSE NoPayload)]
            /\ UNCHANGED fallbackCache
       ELSE IF outcome \in CACHE_ERRORS
       THEN /\ req' = [req EXCEPT ![p] =
                         CacheCall("cache.get", e, outcome, "none", FallbackGet(e))]
            /\ fallbackCache' = FallbackAfterGet(e)
       ELSE /\ req' = [req EXCEPT ![p] =
                         CacheCall("cache.get", e, outcome, outcome, NoPayload)]
            /\ UNCHANGED fallbackCache
    /\ sent' = <<>>
    /\ UNCHANGED <<coreVars, boardVars, inviteVars, pollVars, wsVars, now, cacheVars, chatVars,
                   notifVars>>

\* cache_safe_set(key, value, timeout) as set_cached_progress calls it
CacheSafeSet(p, e, outcome) ==
    /\ req[p] = Idle
    /\ LET value == ComputeEventProgress(e)
       IN  IF outcome = "ok"
           THEN /\ progressCache' = SetCachedProgress(e, value)
                /\ fallbackCache' = [fallbackCache EXCEPT ![e] = NoCacheEntry]
                /\ req' = [req EXCEPT ![p] =
                             CacheCall("cache.set", e, outcome, "none", value)]
           ELSE IF outcome \in CACHE_ERRORS
           THEN /\ fallbackCache' = FallbackSet(e, value)
                /\ req' = [req EXCEPT ![p] =
                             CacheCall("cache.set", e, outcome, "none", value)]
                /\ UNCHANGED progressCache
           ELSE /\ req' = [req EXCEPT ![p] =
                             CacheCall("cache.set", e, outcome, outcome, value)]
                /\ UNCHANGED <<progressCache, fallbackCache, notifVars>>
    /\ sent' = <<>>
    /\ UNCHANGED <<coreVars, boardVars, inviteVars, pollVars, wsVars, now, clock, chatVars,
                   notifVars>>

\* cache_safe_delete(key): the finally clause pops the map's entry whatever
\* the remote cache did
CacheSafeDelete(p, e, outcome) ==
    /\ req[p] = Idle
    /\ progressCache' = IF outcome = "ok" THEN InvalidateProgressCache(e) ELSE progressCache
    /\ fallbackCache' = [fallbackCache EXCEPT ![e] = NoCacheEntry]
    /\ req' = [req EXCEPT ![p] =
                 CacheCall("cache.delete", e, outcome,
                           IF outcome = "ok" \/ outcome \in CACHE_ERRORS THEN "none"
                                                                         ELSE outcome,
                           NoPayload)]
    /\ sent' = <<>>
    /\ UNCHANGED <<coreVars, boardVars, inviteVars, pollVars, wsVars, now, clock, chatVars,
                   notifVars>>

\* the helpers called one after another while the entries age; a second
\* caller only reads
NextCache ==
    \/ \E p \in Racers, e \in EventIds, o \in RemoteOutcomes : CacheSafeGet(p, e, o)
    \/ \E e \in EventIds, o \in RemoteOutcomes : CacheSafeSet(1, e, o)
    \/ \E e \in EventIds, o \in RemoteOutcomes : CacheSafeDelete(1, e, o)
    \/ \E p \in Racers : Finish(p)
    \/ ClockTick(ProgressTickMs, MaxCacheClock)

SpecCache == InitSeeded /\ [][NextCache]_vars

(***************************************************************************)
(* Polls read: PollDetailView.get and the leaders of a poll.               *)
(***************************************************************************)
\* get_leader_option_ids, the loop's body: a replacement that keeps the
\* leaders found so far
LeadersAfter_KeepsLeaders(st, o, n) ==
    IF n = 0 THEN st
    ELSE IF n > st.max_votes THEN [max_votes |-> n, leaders |-> Append(st.leaders, o)]
    ELSE IF n = st.max_votes THEN [st EXCEPT !.leaders = Append(@, o)]
    ELSE st

\* get_leader_option_ids, the loop's body for option o with n votes
LeadersAfter(st, o, n) ==
    IF n = 0 THEN st
    ELSE IF n > st.max_votes THEN [max_votes |-> n, leaders |-> <<o>>]
    ELSE IF n = st.max_votes THEN [st EXCEPT !.leaders = Append(@, o)]
    ELSE st

\* get_leader_option_ids, the loop over the prefetched options in id order
RECURSIVE LeaderLoop(_, _, _)
LeaderLoop(q, o, st) ==
    IF o > NumOptions THEN st.leaders
    ELSE LeaderLoop(q, o + 1, LeadersAfter(st, o, VotesCount(q, o)))

GetLeaderOptionIds(q) == LeaderLoop(q, 1, [max_votes |-> 0, leaders |-> <<>>])

\* PollDetailView.get: the poll, the permission and PollReadSerializer's data
PollRetrieve(p, u, q) ==
    /\ req[p] = Idle
    /\ polls[q].live
    /\ req' = [req EXCEPT ![p] =
                 IF IsEventMember(polls[q].event, u)
                 THEN [op |-> "poll.retrieve", pc |-> "done", poll |-> q, status |-> 200,
                       total_votes |-> PollReadData(q, polls[q], votes).total_votes,
                       leader_option_ids |-> GetLeaderOptionIds(q)]
                 ELSE [op |-> "poll.retrieve", pc |-> "done", poll |-> q, status |-> 403,
                       total_votes |-> 0, leader_option_ids |-> <<>>]]
    /\ sent' = <<>>
    /\ UNCHANGED <<coreVars, boardVars, inviteVars, pollVars, wsVars, now, cacheVars, chatVars,
                   fallbackCache, notifVars>>

\* polls created, voted on and read, one request after another
NextPollRead ==
    \/ \E u \in Users, e \in EventIds, multiple \in BOOLEAN, allow_change_vote \in BOOLEAN :
          PollCreate(u, e, multiple, allow_change_vote)
    \/ \E u \in Users, q \in PollIds, option_ids \in OptionIdInputs :
          VoteBegin(1, u, q, option_ids)
    \/ VoteSelect(1)
    \/ VoteWrite(1)
    \/ VoteNotify(1)
    \/ \E u \in Users, q \in PollIds : PollRetrieve(1, u, q)
    \/ Finish(1)

SpecPollRead == InitSeeded /\ [][NextPollRead]_vars

(***************************************************************************)
(* Order services: normalize_*_orders applied to boards in any order state.*)
(***************************************************************************)
\* the order values a row can hold when a normalisation starts
InitOrders == 0..MaxInitOrder

\* boards whose rows hold any order values: gaps and duplicates included
InitNormalize ==
    /\ InitNoBoard
    /\ NoNotifications
    /\ taskLists \in [ListIds -> {NoListRow} \cup
                        {[live |-> TRUE, event |-> 1, title |-> 1, order |-> o] :
                           o \in InitOrders}]
    /\ taskLists[1].live
    /\ tasks \in [TaskIds -> {NoTaskRow} \cup
                    {[live |-> TRUE, list |-> 1, order |-> o, assignee |-> NoPart,
                      status |-> "todo"] : o \in InitOrders}]
    /\ nextListId = MaxListId + 1
    /\ nextTaskId = MaxTaskId + 1
    /\ dependsOn = [t \in TaskIds |-> {}]

\* the locals of one run: the rows read by the locked query and needs_update
NormalizeRun(op, target, rows, needs_update) ==
    [op |-> op, pc |-> "done", target |-> target, rows |-> rows,
     needs_update |-> needs_update]

\* normalize_task_orders_in_list(l), one transaction
NormalizeTaskOrdersInList(p, l) ==
    /\ req[p] = Idle
    /\ LET S == ListTasks(l)
           needs_update == NeedsUpdate(S, tasks)
       IN  /\ tasks' = [t \in TaskIds |->
                          IF t \in DOMAIN needs_update
                          THEN [tasks[t] EXCEPT !.order = needs_update[t]]
                          ELSE tasks[t]]
           /\ req' = [req EXCEPT ![p] =
                        NormalizeRun("normalize.tasks", l, [t \in S |-> tasks[t].order],
                                     DOMAIN needs_update)]
    /\ sent' = <<>>
    /\ UNCHANGED <<coreVars, taskLists, nextListId, nextTaskId, dependsOn, inviteVars,
                   pollVars, wsVars, now, cacheVars, chatVars, fallbackCache, notifVars>>

\* normalize_tasklist_orders_in_event(e), one transaction
NormalizeTasklistOrdersInEvent(p, e) ==
    /\ req[p] = Idle
    /\ LET S == EventLists(e)
           needs_update == NeedsUpdate(S, taskLists)
       IN  /\ taskLists' = [l \in ListIds |->
                              IF l \in DOMAIN needs_update
                              THEN [taskLists[l] EXCEPT !.order = needs_update[l]]
                              ELSE taskLists[l]]
           /\ req' = [req EXCEPT ![p] =
                        NormalizeRun("normalize.lists", e, [l \in S |-> taskLists[l].order],
                                     DOMAIN needs_update)]
    /\ sent' = <<>>
    /\ UNCHANGED <<coreVars, tasks, nextListId, nextTaskId, dependsOn, inviteVars,
                   pollVars, wsVars, now, cacheVars, chatVars, fallbackCache, notifVars>>

NextNormalize ==
    \/ \E l \in ListIds : NormalizeTaskOrdersInList(1, l)
    \/ \E e \in EventIds : NormalizeTasklistOrdersInEvent(1, e)
    \/ Finish(1)

SpecNormalize == InitNormalize /\ [][NextNormalize]_vars

(***************************************************************************)
(* Connections of an event while participants are removed from it and      *)
(* chat messages are posted to it.                                         *)
(***************************************************************************)
NextWsPart ==
    \/ \E c \in Conns, token \in Tokens, e \in RouteEventIds : Connect(c, token, e)
    \/ \E c \in Conns : Disconnect(c)
    \/ \E u \in Users, e \in EventIds, k \in PartIds : DeleteBegin(1, u, e, k)
    \/ DeleteSignal(1)
    \/ DeleteWrite(1)
    \/ \E u \in Users, e \in EventIds, n \in TextLens : ChatPostRead(1, u, e, n, MaxWsMessageId)
    \/ ChatPostCreate(1)
    \/ Finish(1)

SpecWsPart == InitSeeded /\ [][NextWsPart]_vars

(***************************************************************************)
(* Notification jobs: send_deadline_reminders and                          *)
(* send_poll_closing_notifications, run by the scheduler.  Time is in      *)
(* hours.                                                                  *)
(***************************************************************************)
\* the rows of S as a list in the order of (ord, id)
RowsInOrder(S, ord) ==
    [i \in 1..Cardinality(S) |-> CHOOSE x \in S : OrderIndex(S, ord, x) = i - 1]

RECURSIVE Flatten(_)
Flatten(ss) == IF ss = <<>> THEN <<>> ELSE Head(ss) \o Flatten(Tail(ss))

\* the keys of a dict filled by setdefault, in insertion order
FirstSeen(s) ==
    LET firsts == {i \in 1..Len(s) : \A j \in 1..(i - 1) : s[j] # s[i]}
    IN  [k \in 1..Cardinality(firsts) |->
            s[CHOOSE i \in firsts : Cardinality({j \in firsts : j < i}) = k - 1]]

\* notifications/tasks.py, in hours
TASK_REMINDER_LOOKAHEAD == 24
TASK_REMINDER_COOLDOWN == 12

\* the values the deadlines, end dates and earlier reminders start with
DueTimes == {NoTime, 12, 30}
EndTimes == {NoTime, 6, 30}
EarlierReminders == {<<NoTime, NoTime>>, <<0, 12>>, <<0, 30>>}

\* the send of a run that raises; 0: none does
FailAts == 0..MaxFailAt

\* _should_notify
ShouldNotify(u) ==
    /\ u # NoUser
    /\ users[u].is_active
    /\ mailPrefs[u].email
    /\ mailPrefs[u].email_notifications_enabled

\* _collect_task_recipients: the assignee's user, then the event's owner
CollectTaskRecipients(t) ==
    LET a == tasks[t].assignee
        first == IF a # NoPart /\ ShouldNotify(participants[a].user)
                 THEN <<participants[a].user>> ELSE <<>>
        event_owner == events[taskLists[tasks[t].list].event]
    IN  IF ShouldNotify(event_owner) /\ event_owner \notin SeqRange(first)
        THEN Append(first, event_owner) ELSE first

\* tasks_queryset of send_deadline_reminders at the time at
ReminderDue_NoKey(t, at) ==
    /\ tasks[t].live
    /\ reminders[t].due_at # NoTime
    /\ reminders[t].due_at >= at
    /\ reminders[t].due_at <= at + TASK_REMINDER_LOOKAHEAD
    /\ tasks[t].status \in {"todo", "doing"}
ReminderDue(t, at) ==
    /\ tasks[t].live
    /\ reminders[t].due_at # NoTime
    /\ reminders[t].due_at >= at
    /\ reminders[t].due_at <= at + TASK_REMINDER_LOOKAHEAD
    /\ tasks[t].status \in {"todo", "doing"}
    /\ \/ reminders[t].deadline_reminder_sent_at = NoTime
       \/ reminders[t].deadline_reminder_sent_at < at - TASK_REMINDER_COOLDOWN
       \/ reminders[t].deadline_reminder_for_due_at # reminders[t].due_at

\* one email of a job; items are the tasks with their due_at, or the poll
\* with its end_at, that the email is about
Email(job, to, items) ==
    [job |-> job, run |-> Len(jobs) + 1, at |-> now, to |-> to, items |-> items]

\* the first emails of a run: all of them, or those before the send that
\* raises when fail_at names one
SentBefore(emails, fail_at) ==
    IF fail_at \in 1..Len(emails) THEN SubSeq(emails, 1, fail_at - 1) ELSE emails

JobResult(job, emails, fail_at) ==
    [job |-> job, at |-> now, raised |-> fail_at \in 1..Len(emails),
     emails_sent |-> Len(SentBefore(emails, fail_at))]

\* send_deadline_reminders; the fail_at-th send_templated_email raises
SendDeadlineReminders(fail_at) ==
    /\ Len(jobs) < MaxRuns
    /\ LET selected == RowsInOrder({t \in TaskIds : ReminderDue(t, now)},
                                   [t \in TaskIds |-> tasks[t].order])
           tasks_to_update == {t \in SeqRange(selected) : CollectTaskRecipients(t) # <<>>}
           recipient_map ==
               FirstSeen(Flatten([i \in 1..Len(selected) |->
                                     CollectTaskRecipients(selected[i])]))
           emails == [i \in 1..Len(recipient_map) |->
                        Email("deadline", recipient_map[i],
                              {<<t, reminders[t].due_at>> :
                                 t \in {x \in tasks_to_update :
                                          recipient_map[i] \in
                                              SeqRange(CollectTaskRecipients(x))}})]
       IN  /\ reminders' = [t \in TaskIds |->
                             IF t \in tasks_to_update
                             THEN [reminders[t] EXCEPT
                                     !.deadline_reminder_sent_at = now,
                                     !.deadline_reminder_for_due_at = reminders[t].due_at]
                             ELSE reminders[t]]
           /\ outbox' = outbox \o SentBefore(emails, fail_at)
           /\ jobs' = Append(jobs, JobResult("deadline", emails, fail_at))
    /\ sent' = <<>>
    /\ UNCHANGED <<coreVars, boardVars, cacheVars, fallbackCache, chatVars, inviteVars,
                   pollVars, wsVars, now, closings, mailPrefs, req>>

\* the polls of send_poll_closing_notifications at the time at
PollClosed(q, at) ==
    /\ polls[q].live
    /\ \/ closings[q].end_at # NoTime /\ closings[q].end_at <= at
       \/ polls[q].is_closed

\* already_notified
AlreadyNotified(q) ==
    /\ closings[q].closing_notification_sent_at # NoTime
    /\ closings[q].closing_notification_for_end_at = closings[q].end_at

\* recipients of a poll: the owner of its event, then its participants
PollRecipients(q) ==
    LET e == polls[q].event
        parts == RowsInOrder({k \in PartIds : participants[k].live /\ participants[k].event = e},
                             [k \in PartIds |-> 0])
        all == <<events[e]>> \o [i \in 1..Len(parts) |-> participants[parts[i]].user]
    IN  FirstSeen(SelectSeq(all, ShouldNotify))

\* send_poll_closing_notifications; the fail_at-th send_templated_email
\* raises, and then bulk_update is not reached
SendPollClosingNotifications(fail_at) ==
    /\ Len(jobs) < MaxRuns
    /\ LET selected == RowsInOrder({q \in PollIds : PollClosed(q, now)},
                                   [q \in PollIds |-> 0 - q])
           notified == SelectSeq(selected,
                                 LAMBDA q : ~AlreadyNotified(q) /\ PollRecipients(q) # <<>>)
           emails == Flatten([i \in 1..Len(notified) |->
                                [j \in 1..Len(PollRecipients(notified[i])) |->
                                    Email("poll", PollRecipients(notified[i])[j],
                                          {<<notified[i], closings[notified[i]].end_at>>})]])
           raised == fail_at \in 1..Len(emails)
       IN  /\ closings' = [q \in PollIds |->
                            IF ~raised /\ q \in SeqRange(notified)
                            THEN [closings[q] EXCEPT
                                    !.closing_notification_sent_at = now,
                                    !.closing_notification_for_end_at = closings[q].end_at]
                            ELSE closings[q]]
           /\ outbox' = outbox \o SentBefore(emails, fail_at)
           /\ jobs' = Append(jobs, JobResult("poll", emails, fail_at))
    /\ sent' = <<>>
    /\ UNCHANGED <<coreVars, boardVars, cacheVars, fallbackCache, chatVars, inviteVars,
                   pollVars, wsVars, now, reminders, mailPrefs, req>>

\* time passes between the runs of the scheduler
NotifyTick ==
    /\ now + NotifyTickHours <= MaxNotifyTime
    /\ now' = now + NotifyTickHours
    /\ sent' = <<>>
    /\ UNCHANGED <<coreVars, boardVars, cacheVars, fallbackCache, chatVars, inviteVars,
                   pollVars, wsVars, notifVars, req>>

\* event 1 with a list of two tasks, one assigned to user 2, and a poll;
\* deadlines, end date, earlier reminder and the owner's opt-in vary
InitNotify ==
    /\ users = [u \in Users |-> [is_active |-> TRUE]]
    /\ events = [e \in EventIds |-> IF e \in {1, 2} THEN e ELSE NoUser]
    /\ participants = SeededParticipants
    /\ nextPartId = 5
    /\ progressCache = [e \in EventIds |-> NoCacheEntry]
    /\ fallbackCache = [e \in EventIds |-> NoCacheEntry]
    /\ clock = 0
    /\ messages = [m \in MessageIds |-> NoMessageRow]
    /\ nextMessageId = 1
    /\ invites = [i \in InviteIds |-> NoInviteRow]
    /\ nextInviteId = 1
    /\ nextPollId = MaxPollId + 1
    /\ votes = {}
    /\ now = 0
    /\ conns = [c \in Conns |-> NewConn]
    /\ groups = [g \in GroupNames |-> {}]
    /\ broker = "up"
    /\ req = [p \in Procs |-> Idle]
    /\ sent = <<>>
    /\ taskLists = [l \in ListIds |->
                      IF l = 1 THEN [live |-> TRUE, event |-> 1, title |-> 1, order |-> 0]
                      ELSE NoListRow]
    /\ \E s \in {"todo", "done"} :
          tasks = [t \in TaskIds |->
                     CASE t = 1 -> [live |-> TRUE, list |-> 1, order |-> 0, assignee |-> 3,
                                    status |-> s]
                       [] t = 2 -> [live |-> TRUE, list |-> 1, order |-> 1,
                                    assignee |-> NoPart, status |-> "doing"]
                       [] OTHER -> NoTaskRow]
    /\ nextListId = 2
    /\ nextTaskId = 3
    /\ dependsOn = [t \in TaskIds |-> {}]
    /\ \E d1 \in DueTimes, d2 \in DueTimes, r \in EarlierReminders :
          reminders = [t \in TaskIds |->
                         CASE t = 1 -> [due_at |-> d1,
                                        deadline_reminder_sent_at |-> r[1],
                                        deadline_reminder_for_due_at |-> r[2]]
                           [] t = 2 -> [NoReminder EXCEPT !.due_at = d2]
                           [] OTHER -> NoReminder]
    /\ \E end_at \in EndTimes, closed \in BOOLEAN :
          /\ polls = [q \in PollIds |->
                        [live |-> TRUE, event |-> 1, multiple |-> FALSE,
                         allow_change_vote |-> FALSE, is_closed |-> closed, version |-> 0]]
          /\ closings = [q \in PollIds |-> [NoClosing EXCEPT !.end_at = end_at]]
    /\ \E enabled \in BOOLEAN :
          mailPrefs = [u \in Users |->
                         [email |-> TRUE,
                          email_notifications_enabled |-> IF u = 1 THEN enabled ELSE TRUE]]
    /\ outbox = <<>>
    /\ jobs = <<>>

\* the jobs run with a working mail backend
NextNotify ==
    \/ SendDeadlineReminders(0)
    \/ SendPollClosingNotifications(0)
    \/ NotifyTick

SpecNotify == InitNotify /\ [][NextNotify]_vars

\* the mail backend may fail at any send
NextNotifyFail ==
    \/ \E fail_at \in FailAts : SendDeadlineReminders(fail_at)
    \/ \E fail_at \in FailAts : SendPollClosingNotifications(fail_at)
    \/ NotifyTick

SpecNotifyFail == InitNotify /\ [][NextNotifyFail]_vars

(***************************************************************************)
(* C1: with the requests executed one at a time, the order values of the   *)
(* tasks of every TaskList are exactly 0..N-1 and the order values of the  *)
(* TaskLists of every Event are exactly 0..M-1.                            *)
(***************************************************************************)
OrdersCompact(S, row) == {row[x].order : x \in S} = 0..(Cardinality(S) - 1)

C1_OrdersCompact ==
    /\ \A l \in ListIds : taskLists[l].live => OrdersCompact(ListTasks(l), tasks)
    /\ \A e \in EventIds : OrdersCompact(EventLists(e), taskLists)

\* a task was deleted from the middle of a list and the rest was renumbered
C1_Witness ==
    \E l \in ListIds :
        /\ taskLists[l].live
        /\ Cardinality(ListTasks(l)) = 2
        /\ \E t \in TaskIds : t < nextTaskId /\ ~tasks[t].live
                              /\ \E a, b \in ListTasks(l) : a < t /\ t < b

(***************************************************************************)
(* C6: of two take requests that both found the task unassigned exactly    *)
(* one answers 200 and the other 409 already_assigned, the assignee is the *)
(* winner's participant, and no take changes a non-null assignee.          *)
(***************************************************************************)
TakeDone(p) == req[p].op = "take" /\ req[p].pc = "done"

C6_RaceOutcome ==
    \A p, q \in Procs :
        ( /\ p # q
          /\ TakeDone(p) /\ TakeDone(q)
          /\ req[p].task = req[q].task
          /\ req[p].seen_assignee = NoPart /\ req[q].seen_assignee = NoPart )
        => LET won == {r \in {p, q} : req[r].status = 200}
               lost == {r \in {p, q} : req[r].status = 409
                                        /\ req[r].code = "already_assigned"}
           IN  /\ Cardinality(won) = 1 /\ Cardinality(lost) = 1
               /\ \A r \in won : tasks[req[r].task].assignee = req[r].participant

C6_TakeStepKeeps ==
    \A p \in Procs :
        (req[p].op = "take" /\ req[p].pc = "update" /\ req'[p].pc = "done")
        => \A t \in TaskIds :
              (tasks[t].live /\ tasks[t].assignee # NoPart)
              => tasks'[t].assignee = tasks[t].assignee

C6_TakeOnce == []C6_RaceOutcome /\ [][C6_TakeStepKeeps]_vars

\* two participants raced for one unassigned task: one won, one got 409
C6_Witness ==
    \E p, q \in Procs :
        /\ p # q /\ TakeDone(p) /\ TakeDone(q)
        /\ req[p].task = req[q].task /\ req[p].user # req[q].user
        /\ req[p].seen_assignee = NoPart /\ req[q].seen_assignee = NoPart
        /\ req[p].status = 200 /\ req[q].status = 409

(***************************************************************************)
(* C7: the rows that concurrent create requests add to one list (one       *)
(* event) get distinct order values, and with no request in flight the     *)
(* order values are 0..N-1.                                                *)
(***************************************************************************)
DistinctOrders(S, row) == \A a, b \in S : a # b => row[a].order # row[b].order

C7_ConcurrentCreates ==
    /\ \A l \in ListIds : taskLists[l].live => DistinctOrders(ListTasks(l), tasks)
    /\ \A e \in EventIds : DistinctOrders(EventLists(e), taskLists)

(***************************************************************************)
(* C2: the envelope of every task and task-list mutation is delivered to   *)
(* every WebSocket connection that is subscribed to the same event.        *)
(***************************************************************************)
BoardMessageTypes ==
    {"tasklist.created", "tasklist.deleted", "tasklist.reordered",
     "task.created", "task.updated", "task.deleted", "task.reordered"}

Subscribed(e) == {c \in Conns : conns[c].state = "open" /\ conns[c].event_id = e}

C2_MutationDelivered ==
    \A i \in 1..Len(sent) :
        sent[i].message_type \in BoardMessageTypes
        => Subscribed(sent[i].event_id) \subseteq sent[i].receivers

(***************************************************************************)
(* C9: a connection is accepted and added to the group of its event only   *)
(* if its token resolves to a user who is a participant of that event; it  *)
(* is closed with 4401 without a user and with 4403 for a non-participant, *)
(* and a rejected connection is in no group.                               *)
(***************************************************************************)
C9_ConnectStep ==
    \A c \in Conns :
        (conns[c].state = "new" /\ conns'[c].state # "new")
        => LET token == conns'[c].token
               e == conns'[c].event_id
               hasUser == token.valid /\ token.user_id \in Users
               member == \E k \in PartIds : /\ participants[k].live
                                            /\ participants[k].event = e
                                            /\ participants[k].user = token.user_id
           IN  /\ conns'[c].state = "open" <=> (hasUser /\ member)
               /\ conns'[c].state = "open" => c \in groups'[ConsumerGroup(e)]
               /\ ~hasUser => conns'[c].close_code = 4401
               /\ (hasUser /\ ~member) => conns'[c].close_code = 4403

C9_GroupsHoldAccepted ==
    \A g \in GroupNames : \A c \in groups[g] :
        conns[c].state = "open" /\ g = ConsumerGroup(conns[c].event_id)

C9_ConnectGate == []C9_GroupsHoldAccepted /\ [][C9_ConnectStep]_vars

\* one connection was refused with 4403 while another one is subscribed
C9_Witness ==
    \E c, d \in Conns :
        /\ conns[c].state = "closed" /\ conns[c].close_code = 4403
        /\ conns[d].state = "open" /\ d \in groups[ConsumerGroup(conns[d].event_id)]

(***************************************************************************)
(* C10: a broadcast is handed to the channel layer only after the          *)
(* transaction of the operation that produced it has committed.            *)
(***************************************************************************)
C10_BroadcastAfterCommit == \A i \in 1..Len(sent) : sent[i].committed

(***************************************************************************)
(* C5: an invite with max_uses # 0 never has uses_count above max_uses,    *)
(* whatever the interleaving of accept requests; of two concurrent accepts *)
(* of a max_uses = 1 invite by two users who are not members exactly one   *)
(* answers 201 joined and the other 400 exhausted, one Participant row is  *)
(* created and uses_count is 1.                                            *)
(***************************************************************************)
AcceptDone(p) == req[p].op = "invite.accept" /\ req[p].pc = "done"

FreshSingleUse(p) ==
    /\ req[p].initial_invite.live
    /\ req[p].initial_invite.max_uses = 1
    /\ req[p].initial_invite.uses_count = 0
    /\ ~req[p].member_before

\* no other invite leads into the event of invite i
OnlyInviteOfEvent(i) ==
    \A j \in InviteIds \ {i} : invites[j].live => invites[j].event # invites[i].event

C5_UsesBounded ==
    \A i \in InviteIds :
        (invites[i].live /\ invites[i].max_uses # 0)
        => invites[i].uses_count <= invites[i].max_uses

C5_RaceOutcome ==
    \A p, q \in Procs :
        ( /\ p # q /\ AcceptDone(p) /\ AcceptDone(q)
          /\ req[p].invite = req[q].invite /\ req[p].user # req[q].user
          /\ FreshSingleUse(p) /\ FreshSingleUse(q)
          /\ ~invites[req[p].invite].is_revoked
          /\ invites[req[p].invite].expires_at > now
          /\ OnlyInviteOfEvent(req[p].invite) )
        => LET i == req[p].invite
               joined == {r \in {p, q} : req[r].status = 201 /\ req[r].code = "joined"}
               refused == {r \in {p, q} : req[r].status = 400 /\ req[r].code = "exhausted"}
           IN  /\ Cardinality(joined) = 1 /\ Cardinality(refused) = 1
               /\ invites[i].uses_count = 1
               /\ \A r \in {p, q} :
                     (\E k \in PartIds : /\ participants[k].live
                                         /\ participants[k].event = invites[i].event
                                         /\ participants[k].user = req[r].user)
                     <=> r \in joined

C5_InviteLimit == C5_UsesBounded /\ C5_RaceOutcome

\* two users raced for the single use of an invite and both have an answer
C5_Witness ==
    \E p, q \in Procs :
        /\ p # q /\ AcceptDone(p) /\ AcceptDone(q)
        /\ req[p].invite = req[q].invite /\ req[p].user # req[q].user
        /\ FreshSingleUse(p) /\ FreshSingleUse(q)
        /\ req[p].status = 201 /\ req[q].status = 400
        /\ OnlyInviteOfEvent(req[p].invite)
        /\ invites[req[p].invite].uses_count = invites[req[p].invite].max_uses

(***************************************************************************)
(* C3: every poll.updated broadcast carries the version stored for the     *)
(* poll after the vote; the first vote that changes a poll is broadcast    *)
(* with version 2 and every later one with a greater version.              *)
(***************************************************************************)
C3_UpdatedCarriesVersion ==
    \A i \in 1..Len(sent) :
        sent[i].message_type = "poll.updated"
        => /\ sent[i].payload.version = polls[sent[i].payload.poll_id].version
           /\ sent[i].payload.version >= 2

(***************************************************************************)
(* C8: the stored version of a poll never decreases, whatever the          *)
(* interleaving of vote and close requests.                                *)
(***************************************************************************)
C8_VersionStep == \A q \in PollIds : polls[q].live => polls'[q].version >= polls[q].version

C8_VersionMonotonic == [][C8_VersionStep]_vars

(***************************************************************************)
(* C4: in every reachable state every Event has at least one Participant   *)
(* with role organizer.                                                    *)
(***************************************************************************)
C4_EventHasOrganizer ==
    \A e \in EventIds :
        events[e] # NoUser
        => \E k \in PartIds : /\ participants[k].live
                              /\ participants[k].event = e
                              /\ participants[k].role = "organizer"

(***************************************************************************)
(* C11: when the publish to the broker fails while a mutation request is   *)
(* handled, the mutation is still committed and the request still returns  *)
(* its result, not an error.                                               *)
(***************************************************************************)
C11_PublishFailureTolerated ==
    \A p \in Procs :
        (req[p].pc = "done" /\ req[p].code = "publish_failed")
        => req[p].committed /\ req[p].status < 500

(***************************************************************************)
(* C12: Invite.uses_count never decreases; the number of Participant rows  *)
(* created by accepting an invite equals the number of increments of its   *)
(* uses_count; an accept by a user who is already a participant of the     *)
(* event answers already_member and changes neither uses_count nor the     *)
(* participants.                                                           *)
(***************************************************************************)
RECURSIVE SumUses(_, _)
SumUses(rows, ids) ==
    IF ids = {} THEN 0
    ELSE LET i == CHOOSE x \in ids : TRUE
         IN  rows[i].uses_count + SumUses(rows, ids \ {i})

\* the rows of an event that were not there at the start: in this
\* specification a row is only added by an accept
JoinedRows(rows, e) ==
    {k \in PartIds : rows[k].live /\ rows[k].event = e /\ ~SeededParticipants[k].live}

EventInvites(e) == {i \in InviteIds : invites[i].live /\ invites[i].event = e}

\* per event, the rows added by accepts are as many as the uses counted
C12_JoinsCounted ==
    \A e \in EventIds :
        Cardinality(JoinedRows(participants, e)) = SumUses(invites, EventInvites(e))

\* the accept of handler p commits on invite i in this step
AcceptCommits(p, i) ==
    /\ req[p].op = "invite.accept" /\ req[p].pc = "write" /\ req[p].invite = i
    /\ req'[p].pc = "done"

C12_UsesStep ==
    \A i \in InviteIds :
        invites[i].live =>
            /\ invites'[i].uses_count >= invites[i].uses_count
            /\ invites'[i].uses_count - invites[i].uses_count =
                 Cardinality({k \in PartIds :
                     /\ participants'[k].live /\ ~participants[k].live
                     /\ participants'[k].event = invites[i].event
                     /\ \E p \in Procs : /\ AcceptCommits(p, i)
                                         /\ participants'[k].user = req[p].user})

\* the transaction of handler p decides in this step, for a current member
MemberAccepts(p) ==
    /\ req[p].op = "invite.accept" /\ req[p].pc = "lock" /\ req'[p].pc = "done"
    /\ \E k \in PartIds : /\ participants[k].live
                          /\ participants[k].event = invites[req[p].invite].event
                          /\ participants[k].user = req[p].user

C12_AlreadyMemberStep ==
    \A p \in Procs :
        MemberAccepts(p) =>
            /\ req'[p].status = 200 /\ req'[p].code = "already_member"
            /\ invites' = invites /\ participants' = participants

C12_UsesCountJoins ==
    []C12_JoinsCounted /\ [][C12_UsesStep /\ C12_AlreadyMemberStep]_vars

\* one accept joined through an invite now used once, and an accept of a
\* member of that event was answered already_member
C12_Witness ==
    \E p, q \in Procs :
        /\ AcceptDone(p) /\ req[p].code = "joined"
        /\ invites[req[p].invite].uses_count = 1
        /\ AcceptDone(q) /\ req[q].code = "already_member"
        /\ invites[req[q].invite].event = invites[req[p].invite].event

(***************************************************************************)
(* C13: a status change to doing or done goes through only if every task   *)
(* of depends_on is done when the request is validated; otherwise it is    *)
(* answered 400 and the status stays as it was; a change to todo is never  *)
(* refused for its dependencies.                                           *)
(***************************************************************************)
\* handler p takes up a status request in this step and lets the user in
StatusDecided(p) ==
    /\ req[p] = Idle
    /\ req'[p].op = "task.status"
    /\ req'[p].status # 403

C13_GateStep ==
    \A p \in Procs :
        StatusDecided(p) =>
            LET t == req'[p].task
                blocked == /\ req'[p].new_status \in {"doing", "done"}
                           /\ \E d \in dependsOn[t] : tasks[d].status # "done"
            IN  IF blocked
                THEN req'[p].pc = "done" /\ req'[p].status = 400 /\ tasks' = tasks
                ELSE \/ req'[p].pc = "update"
                     \/ /\ req'[p].pc = "done" /\ req'[p].status = 200
                        /\ tasks[t].status = req'[p].new_status

\* a status only changes by the update of a request that passed the gate,
\* and to the status it asked for
C13_WriteStep ==
    \A t \in TaskIds :
        tasks'[t].status # tasks[t].status =>
            \E p \in Procs :
                /\ req[p].op = "task.status" /\ req[p].pc = "update" /\ req[p].task = t
                /\ tasks'[t].status = req[p].new_status
                /\ req'[p].pc = "done" /\ req'[p].status = 200

C13_DependencyGate == [][C13_GateStep /\ C13_WriteStep]_vars

\* a request was refused with 400 while a task with dependencies is done
C13_Witness ==
    /\ \E p \in Procs :
          /\ req[p].op = "task.status" /\ req[p].pc = "done" /\ req[p].status = 400
    /\ \E t \in TaskIds : dependsOn[t] # {} /\ tasks[t].status = "done"

(***************************************************************************)
(* C14: a vote on a closed poll is refused, so once a close has committed  *)
(* no step of a vote request, one already in flight included, changes the  *)
(* poll's Vote rows or its version.                                        *)
(***************************************************************************)
C14_VoteStepOnClosed ==
    \A p \in Procs :
        ( /\ req[p].op = "poll.vote" /\ req'[p] # req[p]
          /\ polls[req[p].poll].is_closed )
        => /\ votes' = votes
           /\ polls'[req[p].poll].version = polls[req[p].poll].version

C14_ClosedPollFrozen == [][C14_VoteStepOnClosed]_vars

(***************************************************************************)
(* C15: in a poll with allow_change_vote = false the non-empty set of      *)
(* votes of a user never changes: a request with another selection is      *)
(* refused with 400 and changes nothing, and a request that repeats the    *)
(* selection changes neither the votes nor the version and sends no        *)
(* poll.updated.                                                           *)
(***************************************************************************)
VotedOptions(vs, q, u) == {o \in OptionIds : <<q, u, o>> \in vs}

C15_VotesKeptStep ==
    \A q \in PollIds, u \in Users :
        ( /\ polls[q].live /\ ~polls[q].allow_change_vote
          /\ VotedOptions(votes, q, u) # {} )
        => VotedOptions(votes', q, u) = VotedOptions(votes, q, u)

C15_VoteSetFixed == [][C15_VotesKeptStep]_vars

(***************************************************************************)
(* C16: of two concurrent requests that each demote or remove one of the   *)
(* two organizers of an event at most one succeeds: the event still has an *)
(* organizer afterwards.                                                   *)
(***************************************************************************)
\* handler p has demoted or removed a participant it had read as organizer
OrganizerRemoved(p) ==
    /\ req[p].pc = "done"
    /\ req[p].role = "organizer"
    /\ \/ req[p].op = "participant.delete" /\ req[p].status = 204
       \/ /\ req[p].op = "participant.patch" /\ req[p].status = 200
          /\ req[p].new_role # "organizer"

C16_ConcurrentRemovals ==
    \A p, q \in Procs :
        ( /\ p # q
          /\ req[p].op \in {"participant.patch", "participant.delete"}
          /\ req[q].op \in {"participant.patch", "participant.delete"}
          /\ OrganizerRemoved(p) /\ OrganizerRemoved(q)
          /\ req[p].event = req[q].event
          /\ req[p].participant # req[q].participant )
        => \E k \in PartIds : /\ participants[k].live
                              /\ participants[k].event = req[p].event
                              /\ participants[k].role = "organizer"

(***************************************************************************)
(* C17: a handshake whose token names a user with is_active = false is     *)
(* closed with 4401 and its channel is added to no group, also when the    *)
(* user is a participant of the event.                                     *)
(***************************************************************************)
C17_InactiveStep ==
    \A c \in Conns :
        ( /\ conns[c].state = "new" /\ conns'[c].state # "new"
          /\ conns'[c].token.valid
          /\ conns'[c].token.user_id \in Users
          /\ ~users[conns'[c].token.user_id].is_active )
        => /\ conns'[c].state = "closed"
           /\ conns'[c].close_code = 4401
           /\ \A g \in GroupNames : c \notin groups'[g]

C17_InactiveRefused == [][C17_InactiveStep]_vars

(***************************************************************************)
(* C20: a connection broadcasts at most one chat.typing per interval of    *)
(* one second; a chat.typing message that comes earlier is dropped without *)
(* closing the connection, and a dropped message does not restart the      *)
(* interval.                                                               *)
(***************************************************************************)
TypingSent == sent' # <<>> /\ sent'[1].message_type = "chat.typing"

\* a broadcast comes from a connection whose last broadcast is at least a
\* second old, and restarts the interval of that connection only
C20_BroadcastStep ==
    TypingSent =>
        \E c \in Conns :
            /\ conns[c].state = "open" /\ conns[c].user = sent'[1].sender_id
            /\ clock - conns[c].typing_last_sent >= 1000
            /\ conns'[c] = [conns[c] EXCEPT !.typing_last_sent = clock]
            /\ \A d \in Conns \ {c} : conns'[d] = conns[d]

\* without a broadcast the interval of an open connection is not restarted,
\* and no step closes an open connection with a close code
C20_DropStep ==
    \A c \in Conns :
        conns[c].state = "open" =>
            /\ conns'[c].state \in {"open", "new"}
            /\ (conns'[c].state = "open" /\ ~TypingSent)
               => conns'[c].typing_last_sent = conns[c].typing_last_sent

BoardPart(payload) ==
    [event_id |-> payload.event_id, total_tasks |-> payload.total_tasks,
     counts |-> payload.counts, by_list |-> payload.by_list]

\* every write of a board mutation made so far has committed
MutationsCommitted == \A q \in Procs : req[q].pc # "commit"

\* handler p takes up a GET of the progress of event e and lets the user in
ProgressAsked(p, e) ==
    /\ req[p] = Idle
    /\ req'[p].op = "progress.get"
    /\ req'[p].event = e
    /\ req'[p].status = 200

C18_CachedStep ==
    \A p \in Procs, e \in EventIds :
        (ProgressAsked(p, e) /\ CacheHit(e)) =>
            /\ req'[p].pc = "done"
            /\ req'[p].payload = progressCache[e].payload
            /\ progressCache' = progressCache

C18_FreshStep ==
    \A p \in Procs, e \in EventIds :
        (ProgressAsked(p, e) /\ MutationsCommitted) =>
            BoardPart(req'[p].payload) = BoardPart(ComputeEventProgress(e))

C18_CachedThenFresh == [][C18_CachedStep /\ C18_FreshStep]_vars

(***************************************************************************)
(* C19: a request that creates, updates or deletes a task or a task list   *)
(* leaves no progress cache entry for the event and publishes a            *)
(* progress.invalidate message to the event, both in the step that makes   *)
(* its writes; a title update of a task list is such a request.            *)
(***************************************************************************)
\* the events whose task lists or tasks this step writes outside a commit
WrittenEvents ==
    {IF taskLists[l].live THEN taskLists[l].event ELSE taskLists'[l].event :
        l \in {k \in ListIds : taskLists'[k] # taskLists[k]}}
    \cup
    {taskLists'[IF tasks[t].live THEN tasks[t].list ELSE tasks'[t].list].event :
        t \in {k \in TaskIds : tasks'[k] # tasks[k]}}

\* a handler commits the writes of its atomic block in this step
CommitStep == \E p \in Procs : req[p].pc = "commit" /\ req'[p].pc # "commit"

\* a handler makes the writes of a mutation of event e in this step
MutationStep(e) ==
    \/ ~CommitStep /\ e \in WrittenEvents
    \/ \E p \in Procs : req[p] = Idle /\ req'[p].pc = "commit" /\ req'[p].event = e

ProgressInvalidateSent(e) ==
    \E i \in 1..Len(sent') :
        sent'[i].message_type = "progress.invalidate" /\ sent'[i].event_id = e

C19_MutationStep ==
    \A e \in EventIds :
        MutationStep(e) => progressCache'[e] = NoCacheEntry /\ ProgressInvalidateSent(e)

C19_EvictAndPublish == [][C19_MutationStep]_vars

(***************************************************************************)
(* C21: a chat.typing message sent to the group of an event reaches the    *)
(* socket of every subscribed connection of another user and of no         *)
(* connection of the sender; a message of any other type sent to that      *)
(* group reaches the socket of every subscribed connection, those of the   *)
(* user who caused it included.                                            *)
(***************************************************************************)
C21_TypingNoSelfEcho ==
    \A i \in 1..Len(sent) :
        sent[i].group = ConsumerGroup(sent[i].event_id) =>
            IF sent[i].message_type = "chat.typing"
            THEN sent[i].delivered =
                    {c \in Subscribed(sent[i].event_id) : conns[c].user # sent[i].sender_id}
            ELSE sent[i].delivered = Subscribed(sent[i].event_id)

\* a typing indicator with two subscribers, one of them the sender
C21_Witness ==
    /\ Len(sent) = 1
    /\ sent[1].message_type = "chat.typing"
    /\ Cardinality(Subscribed(sent[1].event_id)) = 2
    /\ Cardinality(sent[1].delivered) = 1
    /\ \E c \in Subscribed(sent[1].event_id) :
          conns[c].user = sent[1].sender_id /\ c \notin sent[1].delivered

(***************************************************************************)
(* C22: any two stored chat messages of one author in one event have       *)
(* created_at at least 0.8 s apart, also when sends of the author run      *)
(* concurrently; a send that is answered 429 stores nothing.               *)
(***************************************************************************)
C22_Spaced ==
    \A m, k \in MessageIds :
        (/\ m # k
         /\ messages[m].live /\ messages[k].live
         /\ messages[m].event = messages[k].event
         /\ messages[m].author = messages[k].author
         /\ messages[m].created_at <= messages[k].created_at)
        => messages[k].created_at - messages[m].created_at >= 800

C22_RefusedStep ==
    \A p \in Procs :
        (req[p] = Idle /\ req'[p].op = "chat.post" /\ req'[p].status = 429)
        => /\ messages' = messages
           /\ req'[p].pc = "done"

C22_MessageRateLimit == []C22_Spaced /\ [][C22_RefusedStep]_vars

(***************************************************************************)
(* C23: a reorder whose ordered_ids are not exactly the children of its    *)
(* target (an id missing, an id of another list or event, an extra id, a   *)
(* duplicate) is answered 400, with code invalid_ids when the ids are      *)
(* unique, writes no row, clears no cache entry and sends nothing; a       *)
(* reorder is accepted only with exactly the children, so ordered_ids = [] *)
(* is accepted only for a target without children.                         *)
(***************************************************************************)
ReorderOps == {"task.reorder", "tasklist.reorder"}

\* handler p takes up a reorder in this step
ReorderAsked(p) == req[p] = Idle /\ req'[p].op \in ReorderOps

\* the rows a reorder request is compared with
Children(r) == IF r.op = "task.reorder" THEN ListTasks(r.target) ELSE EventLists(r.target)

\* ids lists every element of S once and nothing else
ExactlyOnce(S, ids) ==
    /\ Len(ids) = Cardinality(S)
    /\ \A x \in S : \E i \in 1..Len(ids) : ids[i] = x

NoDuplicates(ids) == Cardinality({ids[i] : i \in 1..Len(ids)}) = Len(ids)

C23_ReorderStep ==
    \A p \in Procs :
        ReorderAsked(p) =>
            LET r == req'[p]
            IN  IF r.pc = "commit"
                THEN ExactlyOnce(Children(r), r.ids)
                ELSE /\ r.status \in {400, 403}
                     /\ taskLists' = taskLists /\ tasks' = tasks
                     /\ progressCache' = progressCache
                     /\ sent' = <<>>
                     /\ r.status = 400 =>
                          /\ ~ExactlyOnce(Children(r), r.ids)
                          /\ (r.code = "invalid_ids") <=> NoDuplicates(r.ids)

C23_InvalidIdsRefused == [][C23_ReorderStep]_vars

\* a reorder of a list was refused for an id of a task of another list
C23_Witness ==
    \E p \in Procs :
        /\ req[p].op = "task.reorder" /\ req[p].pc = "done"
        /\ req[p].status = 400 /\ req[p].code = "invalid_ids"
        /\ \E i \in 1..Len(req[p].ids) :
              /\ tasks[req[p].ids[i]].live
              /\ tasks[req[p].ids[i]].list # req[p].target

(***************************************************************************)
(* C24: when a reorder commits, the child ordered_ids[i] has order i for   *)
(* every index i (counted from 0), and a reorder with the ids in the order *)
(* they already have changes no row.                                       *)
(***************************************************************************)
\* handler p commits a reorder in this step
ReorderCommits(p) == req[p].op \in ReorderOps /\ req[p].pc = "commit" /\ req'[p] = Idle

\* the order values of the rows a reorder is about, before and after the step
OrderOf(r, x) == IF r.op = "task.reorder" THEN tasks[x].order ELSE taskLists[x].order
OrderAfter(r, x) == IF r.op = "task.reorder" THEN tasks'[x].order ELSE taskLists'[x].order

C24_CommitStep ==
    \A p \in Procs :
        ReorderCommits(p) =>
            LET r == req[p]
            IN  /\ \A i \in 1..Len(r.ids) : OrderAfter(r, r.ids[i]) = i - 1
                /\ (\A i \in 1..Len(r.ids) : OrderOf(r, r.ids[i]) = i - 1)
                   => (tasks' = tasks /\ taskLists' = taskLists)

C24_ReorderIdempotent == [][C24_CommitStep]_vars

\* the two tasks of list 1 have changed places, nothing is in flight
C24_Witness ==
    /\ \A p \in Procs : req[p] = Idle
    /\ tasks[1].live /\ tasks[2].live
    /\ tasks[1].list = 1 /\ tasks[2].list = 1
    /\ tasks[1].order = 1 /\ tasks[2].order = 0

(***************************************************************************)
(* C25: after a task update that moves a task to another list of the same  *)
(* event, the order values of the tasks of the source list and of the      *)
(* target list are exactly 0..N-1.                                         *)
(***************************************************************************)
\* the order values of the tasks of list l after the step are 0..N-1
CompactAfter(l) ==
    LET S == {t \in TaskIds : tasks'[t].live /\ tasks'[t].list = l}
    IN  {tasks'[t].order : t \in S} = 0..(Cardinality(S) - 1)

C25_MoveStep ==
    \A t \in TaskIds :
        (/\ tasks[t].live /\ tasks'[t].live
         /\ tasks'[t].list # tasks[t].list
         /\ taskLists[tasks[t].list].event = taskLists[tasks'[t].list].event
         /\ OrdersCompact(ListTasks(tasks[t].list), tasks)
         /\ OrdersCompact(ListTasks(tasks'[t].list), tasks))
        => CompactAfter(tasks[t].list) /\ CompactAfter(tasks'[t].list)

C25_MoveKeepsOrders == [][C25_MoveStep]_vars

(***************************************************************************)
(* C26: with close requests made one after another, a close of a closed    *)
(* poll is answered 200, changes no poll and sends nothing; a poll never   *)
(* reopens, and a poll.closed message is sent only by the step that closes *)
(* an open poll and adds one to its version, so that closing increments    *)
(* the version once and is broadcast once.                                 *)
(***************************************************************************)
PollClosedSent == {i \in 1..Len(sent') : sent'[i].message_type = "poll.closed"}

C26_RepeatedCloseStep ==
    \A p \in Procs :
        (/\ req[p] = Idle /\ req'[p].op = "poll.close"
         /\ polls[req'[p].poll].is_closed)
        => /\ req'[p].pc = "done" /\ req'[p].status = 200
           /\ polls' = polls
           /\ sent' = <<>>

C26_ClosingStep ==
    /\ \A q \in PollIds : polls[q].is_closed => polls'[q].is_closed
    /\ PollClosedSent # {} =>
          /\ Cardinality(PollClosedSent) = 1
          /\ \E q \in PollIds :
                /\ ~polls[q].is_closed /\ polls'[q].is_closed
                /\ polls'[q].version = polls[q].version + 1
                /\ \A i \in PollClosedSent : sent'[i].payload.poll_id = q
    /\ \A q \in PollIds :
          (polls[q].live /\ ~polls[q].is_closed /\ polls'[q].is_closed) => PollClosedSent # {}

C26_CloseIdempotent == [][C26_RepeatedCloseStep /\ C26_ClosingStep]_vars

\* a close request has been answered for a poll that was already closed
C26_Witness ==
    \E p \in Procs :
        /\ req[p].op = "poll.close" /\ req[p].pc = "done" /\ req[p].status = 200
        /\ polls[req[p].poll].is_closed
        /\ polls[req[p].poll].version = req[p].version

(***************************************************************************)
(* C27: cache_safe_get, cache_safe_set and cache_safe_delete never         *)
(* propagate an error of the remote cache to their caller: when the remote *)
(* cache fails, set stores the value in the in-process map with its TTL,   *)
(* get answers from that map (None when the entry is absent or expired),   *)
(* and delete returns normally.                                            *)
(***************************************************************************)
CacheOps == {"cache.get", "cache.set", "cache.delete"}

\* a step in which handler 1 calls one of the helpers
CacheCalled == req[1] = Idle /\ req'[1].op \in CacheOps

\* the entry of the map is there and has not expired
FallbackLive(e) == fallbackCache[e].present /\ ~(fallbackCache[e].expires_at < clock)

C27_FailedCallStep ==
    CacheCalled /\ req'[1].outcome # "ok"
        => LET r == req'[1]
               e == r.event
           IN  /\ r.raised = "none"
               /\ r.op = "cache.set"
                    => fallbackCache'[e] =
                         [present |-> TRUE, payload |-> r.result,
                          expires_at |-> clock + CACHE_TTL_SECONDS * 1000]
               /\ r.op = "cache.get"
                    => r.result = IF FallbackLive(e) THEN fallbackCache[e].payload
                                                     ELSE NoPayload

C27_NeverPropagates == [][C27_FailedCallStep]_vars

\* the same statement for the failures whose class is in _CACHE_ERRORS
C27_CaughtClasses ==
    [][CacheCalled /\ req'[1].outcome \in CACHE_ERRORS => C27_FailedCallStep]_vars

(***************************************************************************)
(* C28: the board write operations (reordering lists, reordering tasks,    *)
(* assigning a task, deleting a task) are permitted to every participant   *)
(* whose role is organizer, and a participant whose role is member gets    *)
(* status 403 while the board stays as it was.                             *)
(***************************************************************************)
BoardWriteOps == {"task.reorder", "tasklist.reorder", "task.assign", "task.destroy"}

\* a step in which handler 1 receives one of the board write requests
BoardWriteAsked == req[1] = Idle /\ req'[1].op \in BoardWriteOps

\* the roles the caller u has among the participants of event e
RolesIn(e, u) == {participants[k].role : k \in ParticipantOf(e, u)}

C28_WriteStep ==
    BoardWriteAsked
        => LET r == req'[1]
               forbidden == r.pc = "done" /\ r.status = 403
           IN  /\ "organizer" \in RolesIn(r.event, r.user) => ~forbidden
               /\ RolesIn(r.event, r.user) = {"member"}
                    => forbidden /\ UNCHANGED <<boardVars, progressCache>> /\ sent' = <<>>

C28_OrganizersWriteBoard == [][C28_WriteStep]_vars

\* the same statement with the event's owner in the place of the organizers
C28_OwnerWritesBoard ==
    [][BoardWriteAsked
         => LET r == req'[1]
                forbidden == r.pc = "done" /\ r.status = 403
            IN  /\ events[r.event] = r.user => ~forbidden
                /\ events[r.event] # r.user
                     => forbidden /\ UNCHANGED <<boardVars, progressCache>> /\ sent' = <<>>]_vars

(***************************************************************************)
(* C29: when the sole organizer of an event tries to demote themselves the *)
(* request is rejected with code self_last_organizer, provided the event   *)
(* has another participant, and with code last_organizer when the          *)
(* organizer is the event's only participant; when another caller tries to *)
(* demote the sole organizer it is rejected with code last_organizer; in   *)
(* every case the role is unchanged.                                       *)
(***************************************************************************)
\* the participant rows of event e, and those with role organizer
EventParticipants(e) == {k \in PartIds : participants[k].live /\ participants[k].event = e}
EventOrganizers(e) == {k \in EventParticipants(e) : participants[k].role = "organizer"}

\* a step in which handler p receives a PATCH that demotes the sole organizer
DemotesSoleOrganizer(p) ==
    /\ req[p] = Idle
    /\ req'[p].op = "participant.patch"
    /\ EventOrganizers(req'[p].event) = {req'[p].participant}
    /\ req'[p].new_role # "organizer"

\* the request is rejected with the code and no role changes
RejectedWith(p, code) ==
    /\ req'[p].pc = "done" /\ req'[p].status = 400 /\ req'[p].code = code
    /\ participants' = participants

C29_DemotionStep ==
    \A p \in Procs :
        DemotesSoleOrganizer(p)
            => LET r == req'[p]
               IN  IF participants[r.participant].user # r.user
                   THEN RejectedWith(p, "last_organizer")
                   ELSE IF EventParticipants(r.event) # {r.participant}
                   THEN RejectedWith(p, "self_last_organizer")
                   ELSE RejectedWith(p, "last_organizer")

C29_SoleOrganizerKept == [][C29_DemotionStep]_vars

\* the claim as first stated: every self-demotion gets self_last_organizer
C29_SelfCodeAlways ==
    [][\A p \in Procs :
         DemotesSoleOrganizer(p)
             => IF participants[req'[p].participant].user # req'[p].user
                THEN RejectedWith(p, "last_organizer")
                ELSE RejectedWith(p, "self_last_organizer")]_vars

\* one rejected self-demotion with other participants around, and one
\* demotion of the sole organizer by another caller, both answered
C29_Witness ==
    \E p, q \in Procs :
        /\ req[p].op = "participant.patch" /\ req[p].code = "self_last_organizer"
        /\ participants[req[p].participant].user = req[p].user
        /\ participants[req[p].participant].role = "organizer"
        /\ req[q].op = "participant.patch" /\ req[q].code = "last_organizer"
        /\ participants[req[q].participant].live
        /\ participants[req[q].participant].user # req[q].user
        /\ participants[req[q].participant].role = "organizer"

(***************************************************************************)
(* C30: for every poll and every option o, o is in leader_option_ids if    *)
(* and only if votes(o) > 0 and votes(o) equals the maximum vote count     *)
(* over the poll's options; leader_option_ids is empty when the poll has   *)
(* no votes.                                                               *)
(***************************************************************************)
\* the Vote rows of option o of poll q
OptionVotes(q, o) == {v \in votes : v[1] = q /\ v[3] = o}

\* no option of poll q has more votes than option o
HasMaxVotes(q, o) ==
    \A o2 \in OptionIds : Cardinality(OptionVotes(q, o2)) <= Cardinality(OptionVotes(q, o))

C30_ReadStep ==
    req[1] = Idle /\ req'[1].op = "poll.retrieve" /\ req'[1].status = 200
        => LET q == req'[1].poll
               leaders == req'[1].leader_option_ids
           IN  /\ \A o \in OptionIds :
                     (\E i \in 1..Len(leaders) : leaders[i] = o)
                         <=> OptionVotes(q, o) # {} /\ HasMaxVotes(q, o)
               /\ (\A o \in OptionIds : OptionVotes(q, o) = {}) => leaders = <<>>

C30_LeadersAreMaxVoted == [][C30_ReadStep]_vars

\* a poll read whose second option leads while the first has a vote
C30_Witness ==
    /\ req[1].op = "poll.retrieve" /\ req[1].status = 200
    /\ req[1].leader_option_ids = <<2>>
    /\ OptionVotes(req[1].poll, 1) # {}

(***************************************************************************)
(* C38: after cache_safe_delete(key) has returned, cache_safe_get(key)     *)
(* returns None until the next cache_safe_set(key), whatever the remote    *)
(* cache's availability: also when the value was in the remote cache, the  *)
(* remote cache failed during the delete and answers again for the get.    *)
(***************************************************************************)
\* handler 1, the only writer, has returned from cache_safe_delete of event
\* e's key and has called nothing since
DeleteReturned(e) ==
    /\ req[1].op = "cache.delete" /\ req[1].event = e
    /\ req[1].pc = "done" /\ req[1].raised = "none"

C38_GetAfterDeleteStep ==
    /\ req[2] = Idle
    /\ req'[2].op = "cache.get"
    /\ DeleteReturned(req'[2].event)
    /\ req'[2].raised = "none"
    => req'[2].result = NoPayload

C38_DeletedStaysDeleted == [][C38_GetAfterDeleteStep]_vars

\* the same statement for a delete that the remote cache answered
C38_AnsweredDelete ==
    [][req[1].op = "cache.delete" /\ req[1].outcome = "ok" => C38_GetAfterDeleteStep]_vars

(***************************************************************************)
(* C36: normalize_task_orders_in_list and normalize_tasklist_orders_in_    *)
(* event renumber the rows to 0..N-1, keep their relative order by         *)
(* (order, id), write only the rows whose order differs from their         *)
(* position, and are idempotent: a second run changes no row.              *)
(***************************************************************************)
\* row a comes before row b in (order, id)
Before(ord, a, b) == ord[a] < ord[b] \/ (ord[a] = ord[b] /\ a < b)

\* a run that read the orders old and left the orders new, having written
\* the rows in written
Renumbered(old, new, written) ==
    LET S == DOMAIN old
    IN  /\ {new[x] : x \in S} = 0..(Cardinality(S) - 1)
        /\ \A a, b \in S : Before(old, a, b) => new[a] < new[b]
        /\ written = {x \in S : old[x] # new[x]}
        /\ {old[x] : x \in S} = 0..(Cardinality(S) - 1) => written = {}

C36_NormalizeStep ==
    /\ req[1] = Idle /\ req'[1].op = "normalize.tasks"
         => /\ Renumbered([t \in ListTasks(req'[1].target) |-> tasks[t].order],
                          [t \in ListTasks(req'[1].target) |-> tasks'[t].order],
                          req'[1].needs_update)
            /\ \A t \in TaskIds \ req'[1].needs_update : tasks'[t] = tasks[t]
    /\ req[1] = Idle /\ req'[1].op = "normalize.lists"
         => /\ Renumbered([l \in EventLists(req'[1].target) |-> taskLists[l].order],
                          [l \in EventLists(req'[1].target) |-> taskLists'[l].order],
                          req'[1].needs_update)
            /\ \A l \in ListIds \ req'[1].needs_update : taskLists'[l] = taskLists[l]

\* every row's order is its position in (order, id)
InPosition(S, ord) == \A x \in S : ord[x] = Cardinality({y \in S : Before(ord, y, x)})

\* a run over rows that a run has already renumbered writes nothing
C36_SecondRunStep ==
    /\ (/\ req[1] = Idle /\ req'[1].op = "normalize.tasks"
        /\ InPosition(ListTasks(req'[1].target), [x \in TaskIds |-> tasks[x].order]))
         => req'[1].needs_update = {} /\ tasks' = tasks
    /\ (/\ req[1] = Idle /\ req'[1].op = "normalize.lists"
        /\ InPosition(EventLists(req'[1].target), [x \in ListIds |-> taskLists[x].order]))
         => req'[1].needs_update = {} /\ taskLists' = taskLists

C36_NormalizeIdempotent == [][C36_NormalizeStep /\ C36_SecondRunStep]_vars

\* a run that found two tasks with the same order and wrote a row
C36_Witness ==
    /\ req[1].op = "normalize.tasks"
    /\ req[1].needs_update # {}
    /\ \E a, b \in DOMAIN req[1].rows : a # b /\ req[1].rows[a] = req[1].rows[b]

(***************************************************************************)
(* C33: on a single-choice poll (multiple = false) every user has at most  *)
(* one vote row for the poll in every reachable state, also after two      *)
(* concurrent vote requests of one user for different options made while   *)
(* the user had no vote.                                                   *)
(***************************************************************************)
C33_SingleChoiceOneVote ==
    \A q \in PollIds, u \in Users :
        polls[q].live /\ ~polls[q].multiple
            => Cardinality({v \in votes : v[1] = q /\ v[2] = u}) <= 1

(***************************************************************************)
(* C34: a vote request adds exactly one to Poll.version if and only if it  *)
(* inserted or deleted at least one vote row; a request that changes no    *)
(* row (the same selection, or inserts that are all skipped as conflicts   *)
(* under a retry or a concurrent duplicate) leaves version unchanged and   *)
(* emits no poll.updated.                                                  *)
(***************************************************************************)
\* the vote rows of poll q
PollVotes(q, vs) == {v \in vs : v[1] = q}

\* a step of the atomic block of a vote request or of what follows it
VoteRequestStep == \E p \in Procs : req[p].op = "poll.vote" /\ req'[p] # req[p]

C34_VersionStep ==
    VoteRequestStep
        => \A q \in PollIds :
              polls[q].live
                  => polls'[q].version =
                       polls[q].version
                         + (IF PollVotes(q, votes') # PollVotes(q, votes) THEN 1 ELSE 0)

\* a request whose atomic block ends without having changed a row goes on
\* with changed = False
C34_BlockStep ==
    \A p \in Procs :
        (req[p].op = "poll.vote" /\ req[p].pc \in {"select", "write"}
         /\ req'[p].pc = "notify" /\ votes' = votes)
            => ~req'[p].changed

\* poll.updated is sent only by a request that goes on with changed = True
C34_NotifyStep ==
    \A p \in Procs :
        (req[p].op = "poll.vote" /\ req[p].pc = "notify" /\ req'[p].pc = "done"
         /\ \E i \in 1..Len(sent') : sent'[i].message_type = "poll.updated")
            => req[p].changed

C34_VersionCountsChanges == [][C34_VersionStep /\ C34_BlockStep /\ C34_NotifyStep]_vars

(***************************************************************************)
(* C35: on a multi-choice poll with allow_change_vote = true, after a      *)
(* successful vote request with selection S_new the user's vote set is     *)
(* exactly S_new (the votes in S_old and not in S_new are deleted, those   *)
(* in S_new and not in S_old are inserted), the votes of all other users   *)
(* are unchanged, and the poll.updated delta lists exactly the options     *)
(* inserted or deleted.                                                    *)
(***************************************************************************)
\* handler p runs a vote request on a multi-choice poll whose votes may change
ChangeableVote(p) ==
    req[p].op = "poll.vote" /\ req[p].multiple /\ req[p].allow_change_vote

\* the selection S_new of handler p's request
Selection(p) == {req[p].option_ids[i] : i \in 1..Len(req[p].option_ids)}

\* the options of poll q that user u has a vote row for
VotedBy(q, u, vs) == {o \in OptionIds : <<q, u, o>> \in vs}

\* the atomic block replaces the user's rows by the selection and touches
\* nobody else's
C35_WriteStep ==
    \A p \in Procs :
        ChangeableVote(p) /\ req[p].pc = "write" /\ req'[p].pc = "notify"
            => /\ VotedBy(req[p].poll, req[p].user, votes') = Selection(p)
               /\ \A v \in (votes \ votes') \cup (votes' \ votes) :
                     v[1] = req[p].poll /\ v[2] = req[p].user

\* the answer: the user's votes are the selection, and poll.updated carries
\* the counters of the options inserted or deleted, and is sent if there are any
C35_AnswerStep ==
    \A p \in Procs :
        ChangeableVote(p) /\ req[p].pc = "notify" /\ req'[p].status = 200
            => LET delta == (req[p].existing \ Selection(p))
                              \cup (Selection(p) \ req[p].existing)
               IN  /\ VotedBy(req[p].poll, req[p].user, votes) = Selection(p)
                   /\ IF delta = {} THEN sent' = <<>>
                      ELSE /\ Len(sent') = 1
                           /\ sent'[1].message_type = "poll.updated"
                           /\ DOMAIN sent'[1].payload.options = delta

C35_SelectionReplacesVotes == [][C35_WriteStep /\ C35_AnswerStep]_vars

\* an answered request that dropped one option and added another
C35_Witness ==
    \E p \in Procs :
        /\ ChangeableVote(p) /\ req[p].pc = "done" /\ req[p].status = 200
        /\ req[p].existing \ Selection(p) # {}
        /\ Selection(p) \ req[p].existing # {}
        /\ VotedBy(req[p].poll, req[p].user, votes) = Selection(p)

(***************************************************************************)
(* C37: a progress payload computed from a board older than a committed    *)
(* mutation is never served after that mutation's eviction: when a GET of  *)
(* the progress (miss, compute, store) runs beside a mutation (commit,     *)
(* evict), no interleaving leaves a payload of the board before the        *)
(* mutation in the cache for later GETs.                                   *)
(***************************************************************************)
\* no request is under way: every mutation has committed and evicted, and
\* every GET has stored what it computed
AllAnswered == \A p \in Procs : req[p].pc \in {"idle", "done"}

C37_NoStaleEntry ==
    \A e \in EventIds :
        (/\ AllAnswered
         /\ progressCache[e].present
         /\ clock < progressCache[e].expires_at)
            => BoardPart(progressCache[e].payload) = BoardPart(ComputeEventProgress(e))

(***************************************************************************)
(* C39: an envelope published to the group of an event is delivered only   *)
(* to connections whose user has a participant row of that event at the    *)
(* time of the delivery; once the row is removed the connection receives   *)
(* no further envelope.                                                    *)
(***************************************************************************)
HasParticipantRow(e, u) ==
    \E k \in PartIds :
        participants[k].live /\ participants[k].event = e /\ participants[k].user = u

C39_DeliveredToParticipants ==
    \A i \in 1..Len(sent) :
        \A c \in sent[i].delivered : HasParticipantRow(sent[i].event_id, conns[c].user)

(***************************************************************************)
(* C40: an envelope is delivered only to connections that are accepted and *)
(* not yet disconnected and that were accepted for the event of the        *)
(* envelope; a chat.typing is broadcast only for the event of the          *)
(* connection that sent it, so one whose payload names another event is    *)
(* never broadcast.                                                        *)
(***************************************************************************)
C40_DeliveryStep ==
    \A i \in 1..Len(sent') :
        \A c \in sent'[i].delivered :
            /\ conns[c].state = "open" /\ conns'[c].state = "open"
            /\ conns[c].event_id = sent'[i].event_id

C40_TypingStep ==
    \A i \in 1..Len(sent') :
        sent'[i].message_type = "chat.typing"
        => \E c \in Conns :
              /\ conns[c].state = "open"
              /\ conns[c].user = sent'[i].sender_id
              /\ conns[c].event_id = sent'[i].event_id
              /\ conns'[c].typing_last_sent # conns[c].typing_last_sent
                 \/ conns[c].typing_last_sent = clock
              /\ \A d \in Conns \ {c} : conns'[d] = conns[d]

C40_OwnEventWhileConnected == [][C40_DeliveryStep /\ C40_TypingStep]_vars

\* an envelope of one event is delivered to its connection while a
\* connection of another event is open and receives nothing
C40_Witness ==
    /\ Len(sent) = 1
    /\ sent[1].delivered # {}
    /\ \E c \in Conns :
          /\ conns[c].state = "open"
          /\ conns[c].event_id # sent[1].event_id
          /\ c \notin sent[1].delivered

(***************************************************************************)
(* C31: while the mail backend works and tasks and polls are not edited,   *)
(* a run of a notification job that follows an earlier run of the same job *)
(* at the same time sends no email; no two runs of                         *)
(* send_deadline_reminders less than the cooldown of 12 h apart send an    *)
(* email about the same task with the same due_at, and no two runs of      *)
(* send_poll_closing_notifications send an email about the same poll with  *)
(* the same end_at.                                                        *)
(***************************************************************************)
SameItem(i, j) ==
    /\ outbox[i].job = outbox[j].job
    /\ outbox[i].run # outbox[j].run
    /\ outbox[i].items \cap outbox[j].items # {}

C31_JobsIdempotent ==
    /\ \A i \in 1..Len(jobs), j \in 1..Len(jobs) :
          i < j /\ jobs[i].job = jobs[j].job /\ jobs[i].at = jobs[j].at
          => jobs[j].emails_sent = 0
    /\ \A i \in 1..Len(outbox), j \in 1..Len(outbox) :
          i < j /\ SameItem(i, j)
          => /\ outbox[i].job = "deadline"
             /\ outbox[j].at - outbox[i].at > TASK_REMINDER_COOLDOWN

\* a second run of send_deadline_reminders within the cooldown of a first
\* one that sent a reminder for a task that is still open and not yet due
C31_Witness ==
    /\ Len(jobs) = 2
    /\ jobs[1].job = "deadline" /\ jobs[2].job = "deadline"
    /\ jobs[2].at - jobs[1].at <= TASK_REMINDER_COOLDOWN
    /\ jobs[1].emails_sent > 0 /\ jobs[2].emails_sent = 0
    /\ \E i \in 1..Len(outbox) : \E item \in outbox[i].items :
          /\ item[2] >= jobs[2].at
          /\ tasks[item[1]].status \in {"todo", "doing"}
          /\ reminders[item[1]].due_at = item[2]

(***************************************************************************)
(* C32: a job records the key of a notification only after its emails were *)
(* sent: a run changes the reminder columns of a task (the closing columns *)
(* of a poll) only when every recipient of the task (poll) was sent an     *)
(* email about it in that run, and a run in which a send raises changes    *)
(* none of these columns.                                                  *)
(***************************************************************************)
NewEmails == {outbox'[i] : i \in (Len(outbox) + 1)..Len(outbox')}

C32_ReminderKeyStep ==
    \A t \in TaskIds :
        reminders'[t] # reminders[t]
        => /\ ~jobs'[Len(jobs')].raised
           /\ \A u \in SeqRange(CollectTaskRecipients(t)) :
                 \E m \in NewEmails : m.to = u /\ <<t, reminders[t].due_at>> \in m.items

C32_ClosingKeyStep ==
    \A q \in PollIds :
        closings'[q] # closings[q]
        => /\ ~jobs'[Len(jobs')].raised
           /\ \A u \in SeqRange(PollRecipients(q)) :
                 \E m \in NewEmails : m.to = u /\ <<q, closings[q].end_at>> \in m.items

C32_ClosingKeyAfterSend == [][C32_ClosingKeyStep]_vars

C32_KeyAfterSend == [][C32_ReminderKeyStep /\ C32_ClosingKeyStep]_vars
====
